---- MODULE Spec2Model ----
(***************************************************************************)
(* A model of the frame solver in backend/solver: the geometry kernel, the *)
(* intersection preprocessor, the analyze_structure pipeline and           *)
(* combine_results.  Coordinates, scales and magnitudes are exact          *)
(* rationals <<numerator, denominator>> in lowest terms.                   *)
(***************************************************************************)
EXTENDS Integers, Sequences, FiniteSets, TLC

VARIABLES
    input,      \* the arguments of the call, as they were when it was made
    model,      \* the StructuralModel object the caller passed (joints, frames, ...)
    pc,         \* position in the running function
    passes,     \* preprocess_intersections: the models returned so far
    log,        \* analyze_structure: the local list log
    mesh,       \* analyze_structure: solver_joints, solver_frames, frame_mapping, joint_id_to_index
    F,          \* analyze_structure: the load vector, one rational per DOF
    sol,        \* analyze_structure: use_sparse, free_dofs, u_full
    result,     \* the AnalysisResults returned by analyze_structure or combine_results
    combo,      \* combine_results: combination, results_map, disp_map, frame_det_map, loop index
    response    \* main.py: what the endpoint answers (status code, body or detail)

vars == <<input, model, pc, passes, log, mesh, F, sol, result, combo, response>>

None == <<>>

(***************************************************************************)
(* Exact rational arithmetic                                               *)
(***************************************************************************)
Abs(x) == IF x < 0 THEN -x ELSE x

RECURSIVE GCD(_, _)
GCD(a, b) == IF b = 0 THEN a ELSE GCD(b, a % b)

\* n/d, d > 0, over the common divisor g
Lowest(n, d, g) == <<n \div g, d \div g>>
Rat(n, d) == Lowest(IF d < 0 THEN -n ELSE n, Abs(d), GCD(Abs(n), Abs(d)))

R(n) == <<n, 1>>
\* sums are taken over the least common denominator
RAddOver(a, b, g) ==
    Rat(a[1] * (b[2] \div g) + b[1] * (a[2] \div g), (a[2] \div g) * b[2])
RAdd(a, b) == RAddOver(a, b, GCD(a[2], b[2]))
RNeg(a) == <<-a[1], a[2]>>
RSub(a, b) == RAdd(a, RNeg(b))
\* products are taken after cancelling across the two fractions
RMulOver(a, b, g, h) == Rat((a[1] \div g) * (b[1] \div h), (a[2] \div h) * (b[2] \div g))
RMul(a, b) ==
    IF a[1] = 0 \/ b[1] = 0 THEN R(0)
    ELSE RMulOver(a, b, GCD(Abs(a[1]), b[2]), GCD(Abs(b[1]), a[2]))
RDiv(a, b) == RMul(a, Rat(b[2], b[1]))
\* comparisons are made over the least common denominator
RLtOver(a, b, g) == a[1] * (b[2] \div g) < b[1] * (a[2] \div g)
RLt(a, b) == RLtOver(a, b, GCD(a[2], b[2]))
RLe(a, b) == ~RLt(b, a)
RMax(a, b) == IF RLt(a, b) THEN b ELSE a
RMin(a, b) == IF RLt(b, a) THEN b ELSE a

\* Vectors of three rationals (numpy arrays of shape (3,))
P(x, y, z) == <<R(x), R(y), R(z)>>
VSub(a, b) == <<RSub(a[1], b[1]), RSub(a[2], b[2]), RSub(a[3], b[3])>>
VAdd(a, b) == <<RAdd(a[1], b[1]), RAdd(a[2], b[2]), RAdd(a[3], b[3])>>
VScale(t, a) == <<RMul(t, a[1]), RMul(t, a[2]), RMul(t, a[3])>>
Dot(a, b) == RAdd(RAdd(RMul(a[1], b[1]), RMul(a[2], b[2])), RMul(a[3], b[3]))
Cross(a, b) ==
    <<RSub(RMul(a[2], b[3]), RMul(a[3], b[2])),
      RSub(RMul(a[3], b[1]), RMul(a[1], b[3])),
      RSub(RMul(a[1], b[2]), RMul(a[2], b[1]))>>
\* np.linalg.norm(a) squared; norms are only ever compared, so the square is kept
NormSq(a) == Dot(a, a)

\* the tolerance 1e-4 of the geometry kernel and of the preprocessor, as 1/TolInv
TolInv == 10000
Tol == <<1, TolInv>>
\* np.linalg.norm(v) < 1e-4, given q = |v|^2:  n/d < 1/TolInv^2  <=>  n <= (d-1) div TolInv^2
NormLtTol(q) == q[1] <= (q[2] - 1) \div (TolInv * TolInv)

(***************************************************************************)
(* geometry_utils.py                                                       *)
(***************************************************************************)
\* t <= tolerance or t >= 1 - tolerance fails; tolerance < t < 1 - tolerance
Inside(t) == RLt(Tol, t) /\ RLt(t, RSub(R(1), Tol))

\* "Check distance from line", given the parameter t of the projection
near_line(p, a, ab, t) ==
    IF ~Inside(t) THEN FALSE
    ELSE NormLtTol(NormSq(VSub(p, VAdd(a, VScale(t, ab)))))

\* "Check collinearity", given ab = b - a
on_line(p, a, ab) ==
    IF NormLtTol(NormSq(ab)) THEN FALSE
    ELSE near_line(p, a, ab, RDiv(Dot(VSub(p, a), ab), NormSq(ab)))

is_point_on_segment(point, start, end) ==
    IF NormLtTol(NormSq(VSub(point, start))) \/ NormLtTol(NormSq(VSub(point, end)))
    THEN FALSE
    ELSE on_line(point, start, VSub(end, start))

\* "Check actual distance between lines", given the closest points c1, c2:
\* None (<<>>) or <<c1>>, the point on the first segment
close_points(c1, c2) ==
    IF NormLtTol(NormSq(VSub(c1, c2))) THEN <<c1>> ELSE None

\* "Check if intersection is within segments", given t1 and t2
within_segments(P1, P3, d1, d2, t1, t2) ==
    IF Inside(t1) /\ Inside(t2)
    THEN close_points(VAdd(P1, VScale(t1, d1)), VAdd(P3, VScale(t2, d2)))
    ELSE None

\* the closest point of approach, given u = d1 x d2, denom2 = |u|^2, v = P3 - P1
approach(P1, P3, d1, d2, u, denom2, v) ==
    IF NormLtTol(denom2) THEN None
    ELSE within_segments(P1, P3, d1, d2,
             RDiv(Dot(v, Cross(d2, u)), denom2),
             RDiv(Dot(v, Cross(d1, u)), denom2))

\* given d1 = P2 - P1 and d2 = P4 - P3
directions(P1, P3, d1, d2) ==
    IF NormLtTol(NormSq(d1)) \/ NormLtTol(NormSq(d2)) THEN None
    ELSE approach(P1, P3, d1, d2, Cross(d1, d2), NormSq(Cross(d1, d2)),
                  VSub(P3, P1))

get_segment_intersection(p1, p2, p3, p4) ==
    directions(p1, p3, VSub(p2, p1), VSub(p4, p3))

(***************************************************************************)
(* fea_solver.py: preprocess_intersections                                 *)
(***************************************************************************)
Coords(j) == <<j.x, j.y, j.z>>

\* a dict {j.id: ...} built by comprehension keeps the last entry of an id:
\* the index of the joint an id maps to, 0 when the id is no key
RECURSIVE LastIndexOfId(_, _, _)
LastIndexOfId(joints, id, i) ==
    IF i = 0 THEN 0
    ELSE IF joints[i].id = id THEN i
    ELSE LastIndexOfId(joints, id, i - 1)

HasJoint(joints, id) == LastIndexOfId(joints, id, Len(joints)) # 0
joints_map(joints, id) == joints[LastIndexOfId(joints, id, Len(joints))]

\* next((x for x in seq if x.id == id), None): index of the first match, 0 for None
RECURSIVE FirstIndexOfId(_, _, _)
FirstIndexOfId(seq, id, i) ==
    IF i > Len(seq) THEN 0
    ELSE IF seq[i].id = id THEN i
    ELSE FirstIndexOfId(seq, id, i + 1)

MaxOf(S) == CHOOSE x \in S : \A y \in S : y <= x

JointIds(joints) == {joints[i].id : i \in 1..Len(joints)}
FrameIds(frames) == {frames[i].id : i \in 1..Len(frames)}

\* frame_splits is an insertion-ordered dict: a sequence of [f_id, splits],
\* splits a sequence of [t, pt].  t is kept squared (dist^2/length^2): it is
\* only a sort key and squaring keeps the order of non-negative numbers.
SplitEntry(frame_splits, f_id) == FirstIndexOfId(
    [i \in 1..Len(frame_splits) |-> [id |-> frame_splits[i].f_id]], f_id, 1)

add_split(m, frame_splits, f_id, pt) ==
    LET e0 == SplitEntry(frame_splits, f_id)
        fs == IF e0 = 0
              THEN Append(frame_splits, [f_id |-> f_id, splits |-> <<>>])
              ELSE frame_splits
        e == IF e0 = 0 THEN Len(fs) ELSE e0
        waiting == \E k \in 1..Len(fs[e].splits) :
                      NormLtTol(NormSq(VSub(pt, fs[e].splits[k].pt)))
        fi == FirstIndexOfId(m.frames, f_id, 1)
    IN  IF waiting THEN fs
        ELSE IF fi = 0 THEN fs
        ELSE LET frame == m.frames[fi]
                 start == Coords(joints_map(m.joints, frame.jointI))
                 end == Coords(joints_map(m.joints, frame.jointJ))
                 length2 == NormSq(VSub(end, start))
                 dist2 == NormSq(VSub(pt, start))
                 t == IF length2[1] > 0 THEN RDiv(dist2, length2) ELSE R(0)
             IN  [fs EXCEPT ![e].splits = Append(@, [t |-> t, pt |-> pt])]

\* A. the splits the node-on-frame loop asks for, in loop order: <<f_id, pt>>
RECURSIVE node_on_frame(_, _, _)
node_on_frame(m, ji, fi) ==
    IF ji > Len(m.joints) THEN <<>>
    ELSE IF fi > Len(m.frames) THEN node_on_frame(m, ji + 1, 1)
    ELSE LET j == m.joints[ji]
             f == m.frames[fi]
             here ==
                IF f.jointI = j.id \/ f.jointJ = j.id THEN <<>>
                ELSE IF is_point_on_segment(Coords(j),
                            Coords(joints_map(m.joints, f.jointI)),
                            Coords(joints_map(m.joints, f.jointJ)))
                THEN << <<f.id, Coords(j)>> >>
                ELSE <<>>
         IN  here \o node_on_frame(m, ji, fi + 1)

\* B. the splits the frame-frame loop asks for, in loop order
\* the body of the loop for one pair, given what get_segment_intersection returned
pair_splits(f1, f2, intersection) ==
    IF {f1.jointI, f1.jointJ} \cap {f2.jointI, f2.jointJ} # {} THEN <<>>
    ELSE IF intersection # None
    THEN << <<f1.id, intersection[1]>>, <<f2.id, intersection[1]>> >>
    ELSE <<>>

RECURSIVE frame_on_frame(_, _, _)
frame_on_frame(m, i, k) ==
    IF i > Len(m.frames) THEN <<>>
    ELSE IF k > Len(m.frames) THEN frame_on_frame(m, i + 1, i + 2)
    ELSE pair_splits(m.frames[i], m.frames[k],
             get_segment_intersection(
                 Coords(joints_map(m.joints, m.frames[i].jointI)),
                 Coords(joints_map(m.joints, m.frames[i].jointJ)),
                 Coords(joints_map(m.joints, m.frames[k].jointI)),
                 Coords(joints_map(m.joints, m.frames[k].jointJ))))
         \o frame_on_frame(m, i, k + 1)

RECURSIVE collect_splits(_, _, _)
collect_splits(m, frame_splits, events) ==
    IF events = <<>> THEN frame_splits
    ELSE collect_splits(m,
             add_split(m, frame_splits, events[1][1], events[1][2]),
             Tail(events))

pending_splits(m) ==
    collect_splits(m, <<>>, node_on_frame(m, 1, 1) \o frame_on_frame(m, 1, 2))

\* the lookups joints_map[f.jointI], joints_map[f.jointJ] of loops A and B raise
\* KeyError for an id that is no joint: A looks a frame up for every joint that
\* is not one of its endpoints, B looks up every frame of every pair
FrameJointsMissing(m, f) ==
    ~HasJoint(m.joints, f.jointI) \/ ~HasJoint(m.joints, f.jointJ)

preprocess_raises(m) ==
    \/ \E ji \in 1..Len(m.joints), fi \in 1..Len(m.frames) :
          /\ m.frames[fi].jointI # m.joints[ji].id
          /\ m.frames[fi].jointJ # m.joints[ji].id
          /\ FrameJointsMissing(m, m.frames[fi])
    \/ /\ Len(m.frames) >= 2
       /\ \E fi \in 1..Len(m.frames) : FrameJointsMissing(m, m.frames[fi])

\* the splits in the order they were collected
unsorted(s) == s

\* list.sort(key=t) is stable: x goes after every element whose key is <= its own
RECURSIVE SortSplits(_)
SortSplits(s) ==
    IF s = <<>> THEN <<>>
    ELSE LET rest == SortSplits(SubSeq(s, 1, Len(s) - 1))
             x == s[Len(s)]
             n == Cardinality({i \in 1..Len(rest) : RLe(rest[i].t, x.t)})
         IN  SubSeq(rest, 1, n) \o <<x>> \o SubSeq(rest, n + 1, Len(rest))

NewFrame(id, jointI, jointJ, parent) ==
    [id |-> id, jointI |-> jointI, jointJ |-> jointJ,
     sectionId |-> parent.sectionId, orientation |-> parent.orientation,
     offsetY |-> parent.offsetY, offsetZ |-> parent.offsetZ]

NewJoint(id, pt, restraint) ==
    [id |-> id, x |-> pt[1], y |-> pt[2], z |-> pt[3], restraint |-> restraint]

\* the first joint of result_joints within 1e-4 of pt: its index, 0 for None
RECURSIVE match_joint(_, _, _)
match_joint(result_joints, pt, i) ==
    IF i > Len(result_joints) THEN 0
    ELSE IF NormLtTol(NormSq(VSub(Coords(result_joints[i]), pt))) THEN i
    ELSE match_joint(result_joints, pt, i + 1)

\* the walk over the sorted splits of one frame; st carries result_joints,
\* new_frames, next_joint_id, next_frame_id and current_start_node
RECURSIVE walk_splits(_, _, _)
walk_splits(st, original_frame, splits) ==
    IF splits = <<>>
    THEN [st EXCEPT
            !.new_frames = Append(@, NewFrame(st.next_frame_id,
                               st.current_start_node, original_frame.jointJ,
                               original_frame)),
            !.next_frame_id = @ + 1]
    ELSE LET pt == splits[1].pt
             mj == match_joint(st.result_joints, pt, 1)
             mid_node_id == IF mj # 0 THEN st.result_joints[mj].id
                            ELSE st.next_joint_id
             st1 == IF mj # 0 THEN st
                    ELSE [st EXCEPT
                            !.result_joints =
                                Append(@, NewJoint(mid_node_id, pt, None)),
                            !.next_joint_id = @ + 1]
             st2 == [st1 EXCEPT
                        !.new_frames = Append(@, NewFrame(st.next_frame_id,
                                           st.current_start_node, mid_node_id,
                                           original_frame)),
                        !.next_frame_id = @ + 1,
                        !.current_start_node = mid_node_id]
         IN  walk_splits(st2, original_frame, Tail(splits))

RECURSIVE apply_splits(_, _, _)
apply_splits(m, st, frame_splits) ==
    IF frame_splits = <<>> THEN st
    ELSE LET original_frame ==
                 m.frames[FirstIndexOfId(m.frames, frame_splits[1].f_id, 1)]
             st1 == [st EXCEPT !.current_start_node = original_frame.jointI]
         IN  apply_splits(m,
                 walk_splits(st1, original_frame,
                             SortSplits(frame_splits[1].splits)),
                 Tail(frame_splits))

first_joint_id(m) ==
    IF Len(m.joints) > 0 THEN MaxOf(JointIds(m.joints)) + 1 ELSE 1

\* the model object after the call (the function assigns model.joints and
\* model.frames of the object it was given and returns that object)
\* result_joints, new_frames and the id counters before "5. Apply Splits"
split_state(m, frame_splits) ==
    [result_joints |-> m.joints,
     new_frames |-> SelectSeq(m.frames,
                        LAMBDA f : SplitEntry(frame_splits, f.id) = 0),
     next_joint_id |-> first_joint_id(m),
     next_frame_id |-> MaxOf(FrameIds(m.frames)) + 1,
     current_start_node |-> 0]

\* model.joints = result_joints; model.frames = new_frames
assign_result(m, st) ==
    [m EXCEPT !.joints = st.result_joints, !.frames = st.new_frames]

\* everything after the two detection loops
split_frames(m, frame_splits) ==
    IF frame_splits = <<>> THEN m
    ELSE assign_result(m,
             apply_splits(m, split_state(m, frame_splits), frame_splits))

preprocess_intersections(m) == split_frames(m, pending_splits(m))

(***************************************************************************)
(* fea_solver.py: analyze_structure, 1. Mesh the model                     *)
(***************************************************************************)
\* SEGMENTS = min(max(config.meshing_segments, 1), 20)
MinSegments == 1
MaxSegmentsClamp == 20
\* the clamp without its upper end
SEGMENTS_unclamped(config) ==
    IF config.meshing_segments > MinSegments
    THEN config.meshing_segments ELSE MinSegments
SEGMENTS(config) ==
    LET lo == IF config.meshing_segments > MinSegments
              THEN config.meshing_segments ELSE MinSegments
    IN  IF lo < MaxSegmentsClamp THEN lo ELSE MaxSegmentsClamp

get_default_restraint == <<FALSE, FALSE, FALSE, FALSE, FALSE, FALSE>>

\* dict.get(id): the index (0-based), or NoIndex for None
NoIndex == -1
get(map, id) == IF id \in DOMAIN map THEN map[id] ELSE NoIndex
put(map, id, v) == [x \in DOMAIN map \cup {id} |-> IF x = id THEN v ELSE map[x]]

\* joint_id_to_index = {j.id: i for i, j in enumerate(solver_joints)}
enumerate_ids(joints) ==
    [id \in JointIds(joints) |-> LastIndexOfId(joints, id, Len(joints)) - 1]

\* frame_mapping[frame.id] = {'jointIndices': ...}: an existing key keeps its place
set_mapping(frame_mapping, id, indices) ==
    LET e == FirstIndexOfId(frame_mapping, id, 1)
    IN  IF e = 0
        THEN Append(frame_mapping, [id |-> id, jointIndices |-> indices])
        ELSE [frame_mapping EXCEPT ![e].jointIndices = indices]

\* the loop "for i in range(1, SEGMENTS)" of one frame; python indices are
\* 0-based, solver_joints[idx] is st.solver_joints[idx + 1]
RECURSIVE mesh_segments(_, _, _, _, _, _)
mesh_segments(st, frame, start_joint, end_joint, N, i) ==
    IF i >= N THEN st
    ELSE LET t == Rat(i, N)
             pt == <<RAdd(start_joint.x, RMul(RSub(end_joint.x, start_joint.x), t)),
                     RAdd(start_joint.y, RMul(RSub(end_joint.y, start_joint.y), t)),
                     RAdd(start_joint.z, RMul(RSub(end_joint.z, start_joint.z), t))>>
             new_joint == NewJoint(st.next_internal_joint_id, pt,
                                   get_default_restraint)
             new_index == Len(st.solver_joints)
             sub_frame == NewFrame(st.next_internal_frame_id,
                              st.solver_joints[st.prev_joint_idx + 1].id,
                              new_joint.id, frame)
         IN  mesh_segments(
                 [st EXCEPT
                    !.solver_joints = Append(@, new_joint),
                    !.next_internal_joint_id = @ - 1,
                    !.joint_id_to_index = put(@, new_joint.id, new_index),
                    !.internal_joint_indices = Append(@, new_index),
                    !.solver_frames = Append(@, sub_frame),
                    !.next_internal_frame_id = @ - 1,
                    !.prev_joint_idx = new_index],
                 frame, start_joint, end_joint, N, i + 1)

\* "Last segment to end joint" and the frame_mapping entry of the frame
last_sub_frame(st, frame, end_joint, end_joint_idx) ==
    [st EXCEPT
       !.solver_frames = Append(@, NewFrame(st.next_internal_frame_id,
                                    st.solver_joints[st.prev_joint_idx + 1].id,
                                    end_joint.id, frame)),
       !.next_internal_frame_id = @ - 1,
       !.frame_mapping = set_mapping(@, frame.id,
                             Append(st.internal_joint_indices, end_joint_idx))]

\* the loop "for frame in model.frames"
RECURSIVE mesh_frames(_, _, _, _)
mesh_frames(st, frames, N, fi) ==
    IF fi > Len(frames) THEN st
    ELSE LET frame == frames[fi]
             start_joint_idx == get(st.joint_id_to_index, frame.jointI)
             end_joint_idx == get(st.joint_id_to_index, frame.jointJ)
         IN  IF start_joint_idx = NoIndex \/ end_joint_idx = NoIndex
             THEN mesh_frames(
                      [st EXCEPT !.log = Append(@, <<"Error: Invalid joints for frame", frame.id>>)],
                      frames, N, fi + 1)
             ELSE mesh_frames(
                      last_sub_frame(
                          mesh_segments(
                              [st EXCEPT
                                 !.internal_joint_indices = <<start_joint_idx>>,
                                 !.prev_joint_idx = start_joint_idx],
                              frame, st.solver_joints[start_joint_idx + 1],
                              st.solver_joints[end_joint_idx + 1], N, 1),
                          frame, st.solver_joints[end_joint_idx + 1],
                          end_joint_idx),
                      frames, N, fi + 1)

mesh_model(m, config) ==
    mesh_frames(
        [solver_joints |-> m.joints,
         solver_frames |-> <<>>,
         frame_mapping |-> <<>>,
         joint_id_to_index |-> enumerate_ids(m.joints),
         next_internal_joint_id |-> -1,
         next_internal_frame_id |-> -1,
         internal_joint_indices |-> <<>>,
         prev_joint_idx |-> 0,
         log |-> <<>>],
        m.frames, SEGMENTS(config), 1)

(***************************************************************************)
(* fea_solver.py: analyze_structure, assembly of K and F                   *)
(***************************************************************************)
dof_per_node == 6
get_dof_index(node_idx, local_dof) == node_idx * dof_per_node + local_dof

\* next((s for s in model.frameSections if s.id == frame.sectionId), None) and
\* the material of that section: indices, 0 for None.  A frame's sectionId is
\* None (<<>>) or <<id>>.
section_of(m, frame) ==
    IF frame.sectionId = None THEN 0
    ELSE FirstIndexOfId(m.frameSections, frame.sectionId[1], 1)
material_of(m, frame) ==
    IF section_of(m, frame) = 0 THEN 0
    ELSE FirstIndexOfId(m.materials,
                        m.frameSections[section_of(m, frame)].materialId, 1)
resolved(m, frame) == section_of(m, frame) # 0 /\ material_of(m, frame) # 0

\* L < 1e-6 for L^2 = n/d: n/d < 1e-12, and with d below 2^31 that is n = 0
LengthSq(a, b) == NormSq(VSub(Coords(b), Coords(a)))
degenerate(joint_i, joint_j) == LengthSq(joint_i, joint_j)[1] = 0

\* L < 1e-6, on the square of the length
BelowMicro(q) == q[1] <= ((q[2] - 1) \div 1000000) \div 1000000
zero_length(joint_i, joint_j) == BelowMicro(LengthSq(joint_i, joint_j))

\* raise ValueError('Frame element has zero length')
ZeroLengthError == <<"ValueError", "Frame element has zero length">>

\* the stiffness loop raises ValueError('Frame element has zero length') for an
\* element with a section and a material whose end nodes coincide
stiffness_raises(m, ms) ==
    \E k \in 1..Len(ms.solver_frames) :
        LET frame == ms.solver_frames[k]
            start_node_idx == get(ms.joint_id_to_index, frame.jointI)
            end_node_idx == get(ms.joint_id_to_index, frame.jointJ)
        IN  /\ start_node_idx # NoIndex /\ end_node_idx # NoIndex
            /\ resolved(m, frame)
            /\ zero_length(ms.solver_joints[start_node_idx + 1],
                           ms.solver_joints[end_node_idx + 1])

\* math.sqrt of a rational that is a perfect square (every length of the models
\* below is one)
ISqrt(n) == CHOOSE k \in 0..n : k * k = n
RSqrt(q) == <<ISqrt(q[1]), ISqrt(q[2])>>

ZeroF(total_dof) == [d \in 0..(total_dof - 1) |-> R(0)]
AddF(Fv, dof, val) == [Fv EXCEPT ![dof] = RAdd(@, val)]
Add3(Fv, idx, v) ==
    AddF(AddF(AddF(Fv, get_dof_index(idx, 0), v[1]),
              get_dof_index(idx, 1), v[2]),
         get_dof_index(idx, 2), v[3])

GRAVITY == <<981, 100>>
KiloNewton == 1000

\* Self Weight of one pattern: half of w*L to each end of every solver frame, in -Y
RECURSIVE self_weight(_, _, _, _, _)
self_weight(m, ms, Fv, scale, k) ==
    IF k > Len(ms.solver_frames) THEN Fv
    ELSE LET frame == ms.solver_frames[k]
             start_node_idx == get(ms.joint_id_to_index, frame.jointI)
             end_node_idx == get(ms.joint_id_to_index, frame.jointJ)
         IN  IF start_node_idx = NoIndex \/ end_node_idx = NoIndex
                \/ ~resolved(m, frame)
             THEN self_weight(m, ms, Fv, scale, k + 1)
             ELSE LET w == RMul(RMul(m.materials[material_of(m, frame)].density,
                                     m.frameSections[section_of(m, frame)].A),
                                GRAVITY)
                      L == RSqrt(LengthSq(ms.solver_joints[start_node_idx + 1],
                                          ms.solver_joints[end_node_idx + 1]))
                      nodal_load == RMul(RDiv(RMul(w, L), R(2)), scale)
                  IN  self_weight(m, ms,
                          AddF(AddF(Fv, get_dof_index(start_node_idx, 1), RNeg(nodal_load)),
                               get_dof_index(end_node_idx, 1), RNeg(nodal_load)),
                          scale, k + 1)

\* Point Loads of one pattern
RECURSIVE point_loads(_, _, _, _, _, _)
point_loads(m, ms, Fv, pattern, scale, k) ==
    IF k > Len(m.pointLoads) THEN Fv
    ELSE LET load == m.pointLoads[k]
             joint_idx == get(ms.joint_id_to_index, load.jointId)
             c(i) == RMul(RMul(load.f[i], scale), R(KiloNewton))
         IN  IF load.patternId # pattern.id \/ joint_idx = NoIndex
             THEN point_loads(m, ms, Fv, pattern, scale, k + 1)
             ELSE point_loads(m, ms,
                      [d \in DOMAIN Fv |->
                          IF d \in get_dof_index(joint_idx, 0)..get_dof_index(joint_idx, 5)
                          THEN RAdd(Fv[d], c(d - get_dof_index(joint_idx, 0) + 1))
                          ELSE Fv[d]],
                      pattern, scale, k + 1)

\* math.sin of 0, 1, ..., 90 degrees in millionths, rounded to the nearest
SinTable ==
    <<0, 17452, 34899, 52336, 69756, 87156, 104528, 121869, 139173, 156434,
      173648, 190809, 207912, 224951, 241922, 258819, 275637, 292372, 309017, 325568,
      342020, 358368, 374607, 390731, 406737, 422618, 438371, 453990, 469472, 484810,
      500000, 515038, 529919, 544639, 559193, 573576, 587785, 601815, 615661, 629320,
      642788, 656059, 669131, 681998, 694658, 707107, 719340, 731354, 743145, 754710,
      766044, 777146, 788011, 798636, 809017, 819152, 829038, 838671, 848048, 857167,
      866025, 874620, 882948, 891007, 898794, 906308, 913545, 920505, 927184, 933580,
      939693, 945519, 951057, 956305, 961262, 965926, 970296, 974370, 978148, 981627,
      984808, 987688, 990268, 992546, 994522, 996195, 997564, 998630, 999391, 999848,
      1000000>>

\* the sine of a degrees, 0 <= a < 360, in millionths, by the quadrant of a
QuadrantSin(a) ==
    IF a <= 90 THEN SinTable[a + 1]
    ELSE IF a <= 180 THEN SinTable[181 - a]
    ELSE IF a <= 270 THEN -SinTable[a - 179]
    ELSE -SinTable[361 - a]

\* math.sin and math.cos of an orientation of a whole number of degrees, to six
\* decimals: theta = orientation * pi / 180, cos(theta) = sin(theta + pi / 2)
SinDeg(o) == Rat(QuadrantSin(o % 360), 1000000)
CosDeg(o) == SinDeg(o + 90)

\* v / np.linalg.norm(v)
unit(v) == VScale(RDiv(R(1), RSqrt(NormSq(v))), v)

\* up = [0, 1, 0]; if abs(lx[1]) > 0.99: up = [1, 0, 0]
up_of(lx) ==
    IF RLt(<<99, 100>>, <<Abs(lx[2][1]), lx[2][2]>>) THEN P(1, 0, 0) ELSE P(0, 1, 0)

\* ly_rot = ly * c + lz * s;  lz_rot = -ly * s + lz * c
rotated(c, s, lx, ly, lz) ==
    [lx |-> lx,
     ly_rot |-> VAdd(VScale(c, ly), VScale(s, lz)),
     lz_rot |-> VAdd(VScale(RNeg(s), ly), VScale(c, lz))]

\* ly = np.cross(lz, lx) and the rotation by frame.orientation
axes_about(frame, lx, lz) ==
    rotated(CosDeg(frame.orientation), SinDeg(frame.orientation),
            lx, Cross(lz, lx), lz)

\* lz = np.cross(lx, up), normalised
axes_along(frame, lx) == axes_about(frame, lx, unit(Cross(lx, up_of(lx))))

\* "Calculate Local Axes"
local_axes(frame, start_joint, end_joint) ==
    axes_along(frame, unit(VSub(Coords(end_joint), Coords(start_joint))))

\* the direction (fx, fy, fz) of a distributed load
load_direction(load, frame, start_joint, end_joint) ==
    CASE load.direction = "GlobalX" -> P(1, 0, 0)
      [] load.direction = "GlobalY" -> P(0, 1, 0)
      [] load.direction = "GlobalZ" -> P(0, 0, 1)
      [] load.direction = "Gravity" -> P(0, -1, 0)
      [] load.direction = "LocalX" -> local_axes(frame, start_joint, end_joint).lx
      [] load.direction = "LocalY" -> local_axes(frame, start_joint, end_joint).ly_rot
      [] load.direction = "LocalZ" -> local_axes(frame, start_joint, end_joint).lz_rot
      [] OTHER -> P(0, 0, 0)

\* w at a ratio of the frame's length, interpolated over the loaded range
w_at(load, ratio, load_range) ==
    RAdd(load.startMagnitude,
         RMul(RSub(load.endMagnitude, load.startMagnitude),
              RDiv(RSub(ratio, load.startDistance), load_range)))

\* total_force = w_avg * segment_len * scale * 1000
total_force(load, total_length, active_start, active_end, load_range, scale) ==
    RMul(RMul(RMul(RDiv(RAdd(w_at(load, active_start, load_range),
                             w_at(load, active_end, load_range)), R(2)),
                   RMul(RSub(active_end, active_start), total_length)),
              scale),
         R(KiloNewton))

\* F[...] += (fx, fy, fz) * f_node at both nodes of the sub-segment
add_segment_load(Fv, idx_a, idx_b, f) == Add3(Add3(Fv, idx_a, f), idx_b, f)

\* ratio = dist / total_length, given total_length squared
ratio_of(start_joint, node, total2) ==
    RDiv(RSqrt(LengthSq(start_joint, node)), RSqrt(total2))

\* one sub-segment of a distributed load, given ratio_a and ratio_b
segment_load(Fv, load, frame, start_joint, end_joint, idx_a, idx_b, ratio_a, ratio_b, scale) ==
    IF RLe(ratio_b, load.startDistance) \/ RLe(load.endDistance, ratio_a)
    THEN Fv
    ELSE add_segment_load(Fv, idx_a, idx_b,
             VScale(RDiv(total_force(load,
                             RSqrt(LengthSq(start_joint, end_joint)),
                             RMax(ratio_a, load.startDistance),
                             RMin(ratio_b, load.endDistance),
                             RMax(Tol, RSub(load.endDistance, load.startDistance)),
                             scale),
                         R(2)),
                    load_direction(load, frame, start_joint, end_joint)))

\* the loop over the sub-segments of one distributed load
RECURSIVE load_segments(_, _, _, _, _, _, _, _, _)
load_segments(ms, Fv, load, frame, start_joint, end_joint, indices, scale, i) ==
    IF i >= Len(indices) THEN Fv
    ELSE load_segments(ms,
             segment_load(Fv, load, frame, start_joint, end_joint,
                 indices[i], indices[i + 1],
                 ratio_of(start_joint, ms.solver_joints[indices[i] + 1],
                          LengthSq(start_joint, end_joint)),
                 ratio_of(start_joint, ms.solver_joints[indices[i + 1] + 1],
                          LengthSq(start_joint, end_joint)),
                 scale),
             load, frame, start_joint, end_joint, indices, scale, i + 1)

\* the frame a distributed load resolves to in the model being analysed and its
\* mapping: indices into model.frames and frame_mapping, 0 for None
load_frame(m, load) == FirstIndexOfId(m.frames, load.frameId, 1)
load_mapping(m, ms, load) ==
    IF load_frame(m, load) = 0 THEN 0
    ELSE FirstIndexOfId(ms.frame_mapping, m.frames[load_frame(m, load)].id, 1)

\* Distributed Loads of one pattern
RECURSIVE distributed_loads(_, _, _, _, _, _)
distributed_loads(m, ms, Fv, pattern, scale, k) ==
    IF k > Len(m.distributedFrameLoads) THEN Fv
    ELSE LET load == m.distributedFrameLoads[k]
             fi == load_frame(m, load)
             mi == load_mapping(m, ms, load)
         IN  IF load.patternId # pattern.id \/ fi = 0 \/ mi = 0
             THEN distributed_loads(m, ms, Fv, pattern, scale, k + 1)
             ELSE LET frame == m.frames[fi]
                      start_joint == m.joints[FirstIndexOfId(m.joints, frame.jointI, 1)]
                      end_joint == m.joints[FirstIndexOfId(m.joints, frame.jointJ, 1)]
                  IN  distributed_loads(m, ms,
                          load_segments(ms, Fv, load, frame, start_joint, end_joint,
                                        ms.frame_mapping[mi].jointIndices, scale, 1),
                          pattern, scale, k + 1)

\* the loop "for pattern_case in load_case.patterns"
RECURSIVE apply_loads(_, _, _, _, _)
apply_loads(m, ms, Fv, load_case, k) ==
    IF k > Len(load_case.patterns) THEN Fv
    ELSE LET pattern_case == load_case.patterns[k]
             pi == FirstIndexOfId(m.loadPatterns, pattern_case.patternId, 1)
         IN  IF pi = 0 THEN apply_loads(m, ms, Fv, load_case, k + 1)
             ELSE LET pattern == m.loadPatterns[pi]
                      scale == pattern_case.scale
                      F1 == IF pattern.selfWeight
                            THEN self_weight(m, ms, Fv, scale, 1) ELSE Fv
                      F2 == point_loads(m, ms, F1, pattern, scale, 1)
                      F3 == distributed_loads(m, ms, F2, pattern, scale, 1)
                  IN  apply_loads(m, ms, F3, load_case, k + 1)

\* the message of the exception that one distributed load of the pattern being
\* applied raises, None when it raises none: start_joint or end_joint is None
\* when model.joints has no joint of the frame's id (an id of a node that the
\* mesher made still has a mapping), and end_joint.x - start_joint.x raises
\* AttributeError; ratio_a = dist_a / total_length raises ZeroDivisionError
\* for a frame of length zero
JointMissing == <<"'NoneType' object has no attribute 'x'">>
DivisionByZero == <<"float division by zero">>
joints_error(m, frame) ==
    IF FirstIndexOfId(m.joints, frame.jointI, 1) = 0
       \/ FirstIndexOfId(m.joints, frame.jointJ, 1) = 0
    THEN JointMissing
    ELSE IF degenerate(m.joints[FirstIndexOfId(m.joints, frame.jointI, 1)],
                       m.joints[FirstIndexOfId(m.joints, frame.jointJ, 1)])
    THEN DivisionByZero
    ELSE None
load_error(m, ms, pattern, load) ==
    IF load.patternId # pattern.id \/ load_mapping(m, ms, load) = 0 THEN None
    ELSE joints_error(m, m.frames[load_frame(m, load)])

\* the first exception of the loop over model.distributedFrameLoads
RECURSIVE pattern_error(_, _, _, _)
pattern_error(m, ms, pattern, l) ==
    IF l > Len(m.distributedFrameLoads) THEN None
    ELSE IF load_error(m, ms, pattern, m.distributedFrameLoads[l]) # None
    THEN load_error(m, ms, pattern, m.distributedFrameLoads[l])
    ELSE pattern_error(m, ms, pattern, l + 1)

\* the first exception of the loop over load_case.patterns
RECURSIVE loads_error(_, _, _, _)
loads_error(m, ms, load_case, k) ==
    IF k > Len(load_case.patterns) THEN None
    ELSE IF FirstIndexOfId(m.loadPatterns, load_case.patterns[k].patternId, 1) = 0
    THEN loads_error(m, ms, load_case, k + 1)
    ELSE IF pattern_error(m, ms,
                m.loadPatterns[FirstIndexOfId(m.loadPatterns,
                                   load_case.patterns[k].patternId, 1)], 1) # None
    THEN pattern_error(m, ms,
             m.loadPatterns[FirstIndexOfId(m.loadPatterns,
                                load_case.patterns[k].patternId, 1)], 1)
    ELSE loads_error(m, ms, load_case, k + 1)

\* "Assemble Loads" raises
loads_raise(m, ms, load_case) == loads_error(m, ms, load_case, 1) # None

(***************************************************************************)
(* fea_solver.py: analyze_structure, boundary conditions, solve, results   *)
(***************************************************************************)
\* restraint = joint.restraint or get_default_restraint()
restraint_of(joint) ==
    IF joint.restraint = None THEN get_default_restraint ELSE joint.restraint

\* free_dofs, in the order the loop appends them: node i (0-based), flag k
RECURSIVE free_dofs_from(_, _, _)
free_dofs_from(solver_joints, i, k) ==
    IF i >= Len(solver_joints) THEN <<>>
    ELSE IF k > 5 THEN free_dofs_from(solver_joints, i + 1, 0)
    ELSE (IF ~restraint_of(solver_joints[i + 1])[k + 1]
          THEN <<i * 6 + k>> ELSE <<>>)
         \o free_dofs_from(solver_joints, i, k + 1)

free_dofs_of(solver_joints) == free_dofs_from(solver_joints, 0, 0)

\* the threshold is left out: sparse whenever the option is set
use_sparse_unconditional(config, total_dof) ==
    config.use_sparse_solver

\* use_sparse = config.use_sparse_solver and total_dof > 100
SparseThreshold == 100
use_sparse_of(config, total_dof) ==
    config.use_sparse_solver /\ total_dof > SparseThreshold

\* the storage of K, the assembly routine and the solver that use_sparse selects
create_matrix(use_sparse) ==
    IF use_sparse THEN "create_sparse_matrix" ELSE "np.zeros"
assemble_with(use_sparse) ==
    IF use_sparse THEN "assemble_sparse" ELSE "assemble_global"
solve_with(use_sparse) ==
    IF use_sparse THEN "solve_sparse" ELSE "solve_linear_system"

\* A displacement whose value is not computed is kept as a term: Literal(0) is
\* the 0.0 of np.zeros, Entry(k) is u_reduced[k], the number that the solver
\* returned for the k-th free DOF (counted from 0).
Literal(n) == <<n>>
Entry(k) == <<"u_reduced", k>>

\* u_full = np.zeros(total_dof); u_full[free_dofs] = u_reduced
scatter(total_dof, free_dofs, u_reduced) ==
    LET pos(d) == CHOOSE k \in 1..Len(free_dofs) :
                      /\ free_dofs[k] = d
                      /\ \A k2 \in (k + 1)..Len(free_dofs) : free_dofs[k2] # d
    IN  [d \in 0..(total_dof - 1) |->
            IF \E k \in 1..Len(free_dofs) : free_dofs[k] = d
            THEN u_reduced[pos(d)] ELSE Literal(0)]

\* the six components of u_full at the DOFs of node idx
six(u_full, idx) == [k \in 1..6 |-> u_full[get_dof_index(idx, k - 1)]]

\* Extract Results: one JointDisplacement per joint of model.joints
RECURSIVE extract_displacements(_, _, _, _)
extract_displacements(m, ms, u_full, k) ==
    IF k > Len(m.joints) THEN <<>>
    ELSE LET joint == m.joints[k]
             idx == get(ms.joint_id_to_index, joint.id)
         IN  (IF idx # NoIndex
              THEN <<[jointId |-> joint.id, u |-> six(u_full, idx)]>>
              ELSE <<>>)
             \o extract_displacements(m, ms, u_full, k + 1)

\* Reactions: one JointReaction per joint of model.joints, read from K @ u - F
\* at the DOFs of index at (the values of K @ u are not represented)
RECURSIVE extract_reactions(_, _, _)
extract_reactions(m, ms, k) ==
    IF k > Len(m.joints) THEN <<>>
    ELSE LET joint == m.joints[k]
             idx == get(ms.joint_id_to_index, joint.id)
         IN  (IF idx # NoIndex
              THEN <<[jointId |-> joint.id, at |-> idx]>>
              ELSE <<>>)
             \o extract_reactions(m, ms, k + 1)

\* the forces of one frame after "Calculate Member Forces": station i carries
\* forces['start'] of sub-segment i, the last station forces['end'] of the last
\* sub-segment; the placeholder stays where the frame, its section or its
\* material does not resolve.  A force record is named by the sub-segment and
\* the end it was computed at.
ZeroForces == <<"zero">>
member_forces(m, orig_id, indices) ==
    LET fi == FirstIndexOfId(m.frames, orig_id, 1)
        n == Len(indices)
    IN  IF fi = 0 \/ ~resolved(m, m.frames[IF fi = 0 THEN 1 ELSE fi])
        THEN [i \in 1..n |-> ZeroForces]
        ELSE [i \in 1..n |->
                IF i < n THEN <<"start", i - 1>> ELSE <<"end", n - 2>>]

\* frame_detailed_results, keyed by str(orig_frame_id), in frame_mapping order
\* (the key is kept as the integer it prints; an Optional dict is None or <<dict>>)
detailed_results(m, ms, u_full) ==
    [e \in 1..Len(ms.frame_mapping) |->
        LET indices == ms.frame_mapping[e].jointIndices
        IN  [id |-> ms.frame_mapping[e].id,
             stations |-> [i \in 1..Len(indices) |-> Rat(i - 1, Len(indices) - 1)],
             displacements |-> [i \in 1..Len(indices) |->
                 [jointId |-> ms.solver_joints[indices[i] + 1].id,
                  u |-> six(u_full, indices[i])]],
             forces |-> member_forces(m, ms.frame_mapping[e].id, indices)]]

\* Max Disp, kept squared: max of ux^2 + uy^2 + uz^2
max_disp_sq(displacements) ==
    LET mag(d) == d.u[1] * d.u[1] + d.u[2] * d.u[2] + d.u[3] * d.u[3]
    IN  IF displacements = <<>> THEN 0
        ELSE MaxOf({mag(displacements[i]) : i \in 1..Len(displacements)} \cup {0})

\* Max Disp over terms: 0 when every ux, uy and uz is the literal zero,
\* otherwise the term of the maximum over the joints' (ux, uy, uz)
translations(displacements) ==
    [i \in 1..Len(displacements) |->
        <<displacements[i].u[1], displacements[i].u[2], displacements[i].u[3]>>]
max_disp(displacements) ==
    IF \A i \in 1..Len(displacements) :
           translations(displacements)[i] = <<Literal(0), Literal(0), Literal(0)>>
    THEN Literal(0)
    ELSE <<"max_disp", translations(displacements)>>

valid_results(load_case_id, load_case, m, ms, u_full, lg) ==
    [loadCaseId |-> load_case_id,
     caseName |-> <<load_case.name>>,
     displacements |-> extract_displacements(m, ms, u_full, 1),
     frameDetailedResults |-> <<detailed_results(m, ms, u_full)>>,
     reactions |-> extract_reactions(m, ms, 1),
     isValid |-> TRUE,
     maxDisplacement |-> max_disp(extract_displacements(m, ms, u_full, 1)),
     log |-> lg]

\* the except branch of analyze_structure
failed_results(load_case_id, lg, message) ==
    [loadCaseId |-> load_case_id,
     caseName |-> None,
     displacements |-> <<>>,
     frameDetailedResults |-> None,
     reactions |-> <<>>,
     isValid |-> FALSE,
     maxDisplacement |-> 0,
     log |-> Append(lg, <<"Error:", message>>)]

(***************************************************************************)
(* numpy arrays of rationals: a vector is a function on 0..n-1, a matrix a *)
(* vector of rows                                                          *)
(***************************************************************************)
RAbs(a) == <<Abs(a[1]), a[2]>>
IsZeroR(a) == a[1] = 0

\* a[0] + ... + a[n-1]
RECURSIVE RSum(_, _)
RSum(a, n) == IF n = 0 THEN R(0) ELSE RAdd(RSum(a, n - 1), a[n - 1])

Size(a) == Cardinality(DOMAIN a)
\* an array is a value: its entries are computed when it is made
np_array(a) == IF a = a THEN a ELSE a
np_zeros(rows, cols) ==
    np_array([i \in 0..(rows - 1) |-> [j \in 0..(cols - 1) |-> R(0)]])
Transposed(A, rows, cols) ==
    np_array([j \in 0..(cols - 1) |-> [i \in 0..(rows - 1) |-> A[i][j]]])
\* A @ v and A @ B; products with an exact zero are skipped
DotTerm(a, b) == IF IsZeroR(a) \/ IsZeroR(b) THEN R(0) ELSE RMul(a, b)
MatVec(A, v) ==
    np_array([i \in DOMAIN A |->
        RSum([k \in DOMAIN v |-> DotTerm(A[i][k], v[k])], Size(v))])
MatMul(A, B) ==
    np_array([i \in DOMAIN A |->
        [j \in DOMAIN B[0] |->
            RSum([k \in DOMAIN B |-> DotTerm(A[i][k], B[k][j])], Size(B))]])

(***************************************************************************)
(* frame_element.py                                                        *)
(***************************************************************************)
\* MPa to Pa
MegaPascal == 1000000

\* the entry (i, j) of a matrix given by the triples <<i, j, value>> of its
\* non-zero entries
EntryOf(entries, i, j) ==
    IF \E e \in entries : e[1] = i /\ e[2] = j
    THEN (CHOOSE e \in entries : e[1] = i /\ e[2] = j)[3]
    ELSE R(0)

\* the local 12 x 12 stiffness matrix of an element, or the ValueError the
\* function raises for an element shorter than 1e-6
stiffness_entries(joint_i, joint_j, section, material) ==
    LET L == RSqrt(LengthSq(joint_i, joint_j))
        E == RMul(material.E, R(MegaPascal))
        G == RMul(material.G, R(MegaPascal))
        EA_L == RDiv(RMul(E, section.A), L)
        GJ_L == RDiv(RMul(G, section.J), L)
        EIz_L == RDiv(RMul(E, section.Iz), L)
        EIz_L2 == RDiv(EIz_L, L)
        EIz_L3 == RDiv(EIz_L2, L)
        EIy_L == RDiv(RMul(E, section.Iy), L)
        EIy_L2 == RDiv(EIy_L, L)
        EIy_L3 == RDiv(EIy_L2, L)
        t(n, q) == RMul(R(n), q)
        entries ==
            {<<0, 0, EA_L>>, <<0, 6, RNeg(EA_L)>>, <<6, 0, RNeg(EA_L)>>, <<6, 6, EA_L>>,
             <<3, 3, GJ_L>>, <<3, 9, RNeg(GJ_L)>>, <<9, 3, RNeg(GJ_L)>>, <<9, 9, GJ_L>>,
             <<1, 1, t(12, EIz_L3)>>, <<1, 5, t(6, EIz_L2)>>,
             <<1, 7, t(-12, EIz_L3)>>, <<1, 11, t(6, EIz_L2)>>,
             <<5, 1, t(6, EIz_L2)>>, <<5, 5, t(4, EIz_L)>>,
             <<5, 7, t(-6, EIz_L2)>>, <<5, 11, t(2, EIz_L)>>,
             <<7, 1, t(-12, EIz_L3)>>, <<7, 5, t(-6, EIz_L2)>>,
             <<7, 7, t(12, EIz_L3)>>, <<7, 11, t(-6, EIz_L2)>>,
             <<11, 1, t(6, EIz_L2)>>, <<11, 5, t(2, EIz_L)>>,
             <<11, 7, t(-6, EIz_L2)>>, <<11, 11, t(4, EIz_L)>>,
             <<2, 2, t(12, EIy_L3)>>, <<2, 4, t(-6, EIy_L2)>>,
             <<2, 8, t(-12, EIy_L3)>>, <<2, 10, t(-6, EIy_L2)>>,
             <<4, 2, t(-6, EIy_L2)>>, <<4, 4, t(4, EIy_L)>>,
             <<4, 8, t(6, EIy_L2)>>, <<4, 10, t(2, EIy_L)>>,
             <<8, 2, t(-12, EIy_L3)>>, <<8, 4, t(6, EIy_L2)>>,
             <<8, 8, t(12, EIy_L3)>>, <<8, 10, t(6, EIy_L2)>>,
             <<10, 2, t(-6, EIy_L2)>>, <<10, 4, t(2, EIy_L)>>,
             <<10, 8, t(6, EIy_L2)>>, <<10, 10, t(4, EIy_L)>>}
    IN  np_array([i \in 0..11 |-> [j \in 0..11 |-> EntryOf(entries, i, j)]])
frame_element_stiffness(joint_i, joint_j, section, material) ==
    IF zero_length(joint_i, joint_j) THEN ZeroLengthError
    ELSE stiffness_entries(joint_i, joint_j, section, material)

\* theta = orientation * math.pi / 180.0; math.cos(theta), math.sin(theta)
cos_theta(orientation) == CosDeg(orientation)
sin_theta(orientation) == SinDeg(orientation)

\* a cy + b cz, componentwise
Combine3(a, y, b, z) == VAdd(VScale(a, y), VScale(b, z))

\* abs(cy) > 0.99
NearVertical == <<99, 100>>

\* the 12 x 12 transformation matrix: four diagonal blocks of the rotation
\* matrix with rows local x, local y, local z; the ValueError the function
\* raises for an element shorter than 1e-6
rotation_blocks(joint_i, joint_j, orientation) ==
    LET d == VSub(Coords(joint_j), Coords(joint_i))
        L == RSqrt(NormSq(d))
        c == <<RDiv(d[1], L), RDiv(d[2], L), RDiv(d[3], L)>>
        temp == RSqrt(RAdd(RMul(c[1], c[1]), RMul(c[3], c[3])))
        ly == IF RLt(NearVertical, RAbs(c[2])) THEN P(1, 0, 0)
              ELSE <<RDiv(RNeg(RMul(c[1], c[2])), temp), temp,
                     RDiv(RNeg(RMul(c[3], c[2])), temp)>>
        lz == Cross(c, ly)
        ly_new == IF orientation = 0 THEN ly
                  ELSE Combine3(cos_theta(orientation), ly,
                                RNeg(sin_theta(orientation)), lz)
        lz_new == IF orientation = 0 THEN lz
                  ELSE Combine3(sin_theta(orientation), ly,
                                cos_theta(orientation), lz)
        Rot == <<c, ly_new, lz_new>>
    IN  np_array([i \in 0..11 |-> [j \in 0..11 |->
            IF i \div 3 = j \div 3 THEN Rot[(i % 3) + 1][(j % 3) + 1] ELSE R(0)]])
frame_transformation_matrix(joint_i, joint_j, orientation) ==
    IF zero_length(joint_i, joint_j) THEN ZeroLengthError
    ELSE rotation_blocks(joint_i, joint_j, orientation)

\* T * K_local * T, the product without the transpose
untransposed_product(local_k, T) == MatMul(MatMul(T, local_k), T)

\* K_global = T^T * K_local * T
transform_stiffness_to_global(local_k, T) ==
    MatMul(MatMul(Transposed(T, 12, 12), local_k), T)

(***************************************************************************)
(* fea_solver.py: calculate_segment_forces                                 *)
(***************************************************************************)
\* abs(cx) < 0.001 and abs(cz) < 0.001
AlmostZero == <<1, 1000>>

\* the rows R[1] and R[2] of a member that is not vertical
inclined_rows(cx, cy, cz, C1, c, s) ==
    <<<<cx, cy, cz>>,
      <<RDiv(RSub(RMul(RMul(RNeg(cx), cy), c), RMul(cz, s)), C1),
        RMul(C1, c),
        RDiv(RAdd(RMul(RMul(RNeg(cy), cz), c), RMul(cx, s)), C1)>>,
      <<RDiv(RSub(RMul(RMul(cx, cy), s), RMul(cz, c)), C1),
        RMul(RNeg(C1), s),
        RDiv(RAdd(RMul(RMul(cy, cz), s), RMul(cx, c)), C1)>>>>

\* the rotation R of the direction cosines (cx, cy, cz) and the angle beta
rotation_of(cx, cy, cz, c, s) ==
    IF RLt(RAbs(cx), AlmostZero) /\ RLt(RAbs(cz), AlmostZero)
    THEN IF RLt(R(0), cy)
         THEN <<P(0, 1, 0), <<RNeg(c), R(0), s>>, <<s, R(0), c>>>>
         ELSE <<P(0, -1, 0), <<c, R(0), s>>, <<RNeg(s), R(0), c>>>>
    ELSE inclined_rows(cx, cy, cz, RSqrt(RAdd(RMul(cx, cx), RMul(cz, cz))), c, s)

\* "Transformation": the 3 x 3 rotation of the segment from node_a to node_b
direction_cosines(d, L) == <<RDiv(d[1], L), RDiv(d[2], L), RDiv(d[3], L)>>
cosines_rotation(cs, orientation) ==
    rotation_of(cs[1], cs[2], cs[3], CosDeg(orientation), SinDeg(orientation))
segment_rotation(node_a, node_b, orientation) ==
    cosines_rotation(
        direction_cosines(VSub(Coords(node_b), Coords(node_a)),
                          RSqrt(LengthSq(node_a, node_b))),
        orientation)

transform3(vec, rot_local) ==
    <<Dot(rot_local[1], vec), Dot(rot_local[2], vec), Dot(rot_local[3], vec)>>

FrameForces(Pv, V2, V3, T, M2, M3) ==
    [P |-> Pv, V2 |-> V2, V3 |-> V3, T |-> T, M2 |-> M2, M3 |-> M3]
zero_forces == FrameForces(R(0), R(0), R(0), R(0), R(0), R(0))

\* a x + b y + c z + d w
Sum4(a, x, b, y, c, z, d, w) ==
    RAdd(RAdd(RAdd(RMul(a, x), RMul(b, y)), RMul(c, z)), RMul(d, w))

\* "Forces", from the transformed translations ua, ub and rotations ra, rb
\* (1-based triples), EI = E*Iz, EY = E*Iy, and "Convert to kN and kNm"
local_forces(ua, ra, ub, rb, EA, GJ, EI, EY, L) ==
    LET k(n, q, e) == RDiv(RMul(R(n), q), e)
        L2 == RMul(L, L)
        L3 == RMul(L2, L)
        kN(q) == RDiv(q, R(KiloNewton))
        Pv == RMul(RDiv(EA, L), RSub(ub[1], ua[1]))
        T == RMul(RDiv(GJ, L), RSub(rb[1], ra[1]))
        Fy_A == Sum4(k(12, EI, L3), ua[2], k(6, EI, L2), ra[3],
                     RNeg(k(12, EI, L3)), ub[2], k(6, EI, L2), rb[3])
        Mz_A == Sum4(k(6, EI, L2), ua[2], k(4, EI, L), ra[3],
                     RNeg(k(6, EI, L2)), ub[2], k(2, EI, L), rb[3])
        Fz_A == Sum4(k(12, EY, L3), ua[3], k(-6, EY, L2), ra[2],
                     k(-12, EY, L3), ub[3], k(-6, EY, L2), rb[2])
        My_A == Sum4(k(-6, EY, L2), ua[3], k(4, EY, L), ra[2],
                     k(6, EY, L2), ub[3], k(2, EY, L), rb[2])
        Mz_B == Sum4(k(6, EI, L2), ua[2], k(2, EI, L), ra[3],
                     RNeg(k(6, EI, L2)), ub[2], k(4, EI, L), rb[3])
        My_B == Sum4(k(6, EY, L2), ua[3], k(2, EY, L), ra[2],
                     k(-6, EY, L2), ub[3], k(4, EY, L), rb[2])
    IN  [start |-> FrameForces(kN(Pv), kN(Fy_A), kN(Fz_A), kN(T),
                               kN(My_A), kN(RNeg(Mz_A))),
         end |-> FrameForces(kN(Pv), kN(Fy_A), kN(Fz_A), kN(T),
                             kN(RNeg(My_B)), kN(Mz_B))]

rotated_forces(Rot, u_a, u_b, E, G, section, L) ==
    local_forces(transform3(<<u_a[1], u_a[2], u_a[3]>>, Rot),
                 transform3(<<u_a[4], u_a[5], u_a[6]>>, Rot),
                 transform3(<<u_b[1], u_b[2], u_b[3]>>, Rot),
                 transform3(<<u_b[4], u_b[5], u_b[6]>>, Rot),
                 RMul(E, section.A), RMul(G, section.J),
                 RMul(E, section.Iz), RMul(E, section.Iy), L)

\* {'start': FrameForces, 'end': FrameForces} of one sub-segment; u_a and u_b
\* are the six displacements of its nodes
calculate_segment_forces(node_a, node_b, u_a, u_b, section, material, orientation) ==
    IF NormLtTol(LengthSq(node_a, node_b))
    THEN [start |-> zero_forces, end |-> zero_forces]
    ELSE rotated_forces(segment_rotation(node_a, node_b, orientation), u_a, u_b,
                        RMul(material.E, R(MegaPascal)),
                        RMul(material.G, R(MegaPascal)),
                        section, RSqrt(LengthSq(node_a, node_b)))

(***************************************************************************)
(* matrix_utils.py: dense assembly and solution                            *)
(***************************************************************************)
\* global_k[np.ix_(dofs, dofs)] += local_k: every addressed entry is read once
\* and written once, so where dofs repeats an index the last write stays
LastAt(dofs, r) == CHOOSE i \in DOMAIN dofs :
                       dofs[i] = r /\ \A k \in DOMAIN dofs : dofs[k] = r => k <= i
Addressed(dofs, r) == \E i \in DOMAIN dofs : dofs[i] = r
assemble_global(global_k, local_k, dofs) ==
    np_array([r \in DOMAIN global_k |-> [c \in DOMAIN global_k |->
        IF Addressed(dofs, r) /\ Addressed(dofs, c)
        THEN RAdd(global_k[r][c], local_k[LastAt(dofs, r)][LastAt(dofs, c)])
        ELSE global_k[r][c]]])

\* assemble_sparse: global_k[row_dof, col_dof] += local_k[i, j] for every i and
\* j, one entry at a time, so where dofs repeats an index the entries add up
RECURSIVE SumEntries(_, _)
SumEntries(local_k, pairs) ==
    IF pairs = {} THEN R(0)
    ELSE RAdd(local_k[(CHOOSE pr \in pairs : TRUE)[1]][(CHOOSE pr \in pairs : TRUE)[2]],
              SumEntries(local_k, pairs \ {CHOOSE pr \in pairs : TRUE}))
EntriesAt(dofs, r) == {i \in DOMAIN dofs : dofs[i] = r}
assemble_sparse(global_k, local_k, dofs) ==
    np_array([r \in DOMAIN global_k |-> [c \in DOMAIN global_k |->
        RAdd(global_k[r][c],
             SumEntries(local_k, EntriesAt(dofs, r) \X EntriesAt(dofs, c)))]])

\* Gauss-Jordan elimination of the n x (n + 1) matrix M, column by column; st
\* carries M, the next pivot row and the pivot columns found so far
SwapRows(M, a, b) ==
    [r \in DOMAIN M |-> IF r = a THEN M[b] ELSE IF r = b THEN M[a] ELSE M[r]]
ScaleRow(row, q) == [j \in DOMAIN row |-> RDiv(row[j], q)]
SubRow(row, pivot_row, q) ==
    [j \in DOMAIN row |->
        IF IsZeroR(pivot_row[j]) THEN row[j]
        ELSE RSub(row[j], RMul(q, pivot_row[j]))]
Eliminate(M, p, col) ==
    [r \in DOMAIN M |->
        IF r = p \/ IsZeroR(M[r][col]) THEN M[r] ELSE SubRow(M[r], M[p], M[r][col])]
PivotStep(M, row, p, col) ==
    np_array(Eliminate(
        np_array([SwapRows(M, row, p) EXCEPT ![row] = ScaleRow(M[p], M[p][col])]),
        row, col))
RECURSIVE reduce(_, _, _, _, _)
reduce(M, n, row, col, pivots) ==
    IF col >= n \/ row >= n THEN [M |-> M, pivots |-> pivots]
    ELSE IF \A r \in row..(n - 1) : IsZeroR(M[r][col])
    THEN reduce(M, n, row, col + 1, pivots)
    ELSE reduce(PivotStep(M, row,
                    CHOOSE r \in row..(n - 1) :
                        /\ ~IsZeroR(M[r][col])
                        /\ \A q \in row..(r - 1) : IsZeroR(M[q][col]),
                    col),
                n, row + 1, col + 1, Append(pivots, col))

Augmented(A, b) ==
    np_array([i \in DOMAIN A |->
        [j \in 0..Size(b) |-> IF j < Size(b) THEN A[i][j] ELSE b[i]]])

\* the solution read off a reduced system, with 0 for the columns without pivot
ReadOff(red, n) ==
    np_array([j \in 0..(n - 1) |->
        IF \E i \in 1..Len(red.pivots) : red.pivots[i] = j
        THEN red.M[(CHOOSE i \in 1..Len(red.pivots) : red.pivots[i] = j) - 1][n]
        ELSE R(0)])

\* np.linalg.solve raises LinAlgError for a singular matrix
singular(A) == Len(reduce(Augmented(A, [i \in DOMAIN A |-> R(0)]),
                          Size(A), 0, 0, <<>>).pivots) < Size(A)
linalg_solve(A, b) == ReadOff(reduce(Augmented(A, b), Size(b), 0, 0, <<>>), Size(b))

\* np.linalg.lstsq(A, b, rcond=None)[0]: the least-squares solution of minimum
\* norm, A^T z for any z with (A^T A A^T) z = A^T b
linalg_lstsq(A, b) ==
    MatVec(Transposed(A, Size(A), Size(A)),
           linalg_solve(MatMul(MatMul(Transposed(A, Size(A), Size(A)), A),
                               Transposed(A, Size(A), Size(A))),
                        MatVec(Transposed(A, Size(A), Size(A)), b)))

solve_linear_system(A, b) ==
    IF Size(b) = 0 THEN b
    ELSE IF singular(A) THEN linalg_lstsq(A, b)
    ELSE linalg_solve(A, b)

(***************************************************************************)
(* fea_solver.py: combine_results                                          *)
(***************************************************************************)
\* the six components of a JointDisplacement, JointReaction or FrameForces
ZeroSix == <<0, 0, 0, 0, 0, 0>>
\* the sum without the scale
scaled_add_unscaled(t, d, scale) == [c \in 1..6 |-> t[c] + d[c]]
\* t.ux += d.ux * scale, ... for the six components
scaled_add(t, d, scale) == [c \in 1..6 |-> t[c] + d[c] * scale]

\* a dict keyed by jointId, in insertion order: the index of a key, 0 if absent
RECURSIVE IndexOfJoint(_, _, _)
IndexOfJoint(map, jointId, i) ==
    IF i > Len(map) THEN 0
    ELSE IF map[i].jointId = jointId THEN i
    ELSE IndexOfJoint(map, jointId, i + 1)

\* if d.jointId not in disp_map: disp_map[d.jointId] = JointDisplacement(zeros)
with_joint(disp_map, jointId) ==
    IF IndexOfJoint(disp_map, jointId, 1) = 0
    THEN Append(disp_map, [jointId |-> jointId, u |-> ZeroSix])
    ELSE disp_map

\* target = disp_map[d.jointId]; target.ux += d.ux * scale; ...
add_to_joint(disp_map, d, scale) ==
    [disp_map EXCEPT ![IndexOfJoint(disp_map, d.jointId, 1)].u =
                          scaled_add(@, d.u, scale)]

\* "Combine Displacements" of one case
RECURSIVE combine_displacements(_, _, _, _)
combine_displacements(disp_map, displacements, scale, k) ==
    IF k > Len(displacements) THEN disp_map
    ELSE combine_displacements(
             add_to_joint(with_joint(disp_map, displacements[k].jointId),
                          displacements[k], scale),
             displacements, scale, k + 1)

\* "Init": the entry of a frame seen for the first time
init_detail(detail) ==
    [id |-> detail.id,
     stations |-> detail.stations,
     displacements |-> [i \in 1..Len(detail.displacements) |->
                          [jointId |-> detail.displacements[i].jointId,
                           u |-> ZeroSix]],
     forces |-> [i \in 1..Len(detail.forces) |-> ZeroSix]]

with_frame(frame_det_map, detail) ==
    IF FirstIndexOfId(frame_det_map, detail.id, 1) = 0
    THEN Append(frame_det_map, init_detail(detail))
    ELSE frame_det_map

\* target.displacements[i] or target.forces[i] raises IndexError when the
\* detail of this case has more entries than the target
index_error(target, detail) ==
    \/ Len(detail.displacements) > Len(target.displacements)
    \/ Len(detail.forces) > Len(target.forces)

\* "Add Disps" and "Add Forces"
add_detail(target, detail, scale) ==
    [id |-> target.id,
     stations |-> target.stations,
     displacements |-> [i \in 1..Len(target.displacements) |->
         IF i <= Len(detail.displacements)
         THEN [jointId |-> target.displacements[i].jointId,
               u |-> scaled_add(target.displacements[i].u,
                                detail.displacements[i].u, scale)]
         ELSE target.displacements[i]],
     forces |-> [i \in 1..Len(target.forces) |->
         IF i <= Len(detail.forces)
         THEN scaled_add(target.forces[i], detail.forces[i], scale)
         ELSE target.forces[i]]]

\* one frame of one case, given frame_det_map with the frame's entry at e
combine_detail_at(acc, frame_det_map, e, detail, scale) ==
    IF index_error(frame_det_map[e], detail)
    THEN [acc EXCEPT !.raised = <<"list index out of range">>]
    ELSE [acc EXCEPT !.frame_det_map =
             [frame_det_map EXCEPT ![e] = add_detail(@, detail, scale)]]

combine_detail(acc, frame_det_map, detail, scale) ==
    combine_detail_at(acc, frame_det_map,
        FirstIndexOfId(frame_det_map, detail.id, 1), detail, scale)

\* "Combine Detailed Results" of one case; acc carries disp_map, frame_det_map
\* and the exception raised so far (None for none)
RECURSIVE combine_detailed(_, _, _, _)
combine_detailed(acc, details, scale, k) ==
    IF k > Len(details) \/ acc.raised # None THEN acc
    ELSE combine_detailed(
             combine_detail(acc, with_frame(acc.frame_det_map, details[k]),
                            details[k], scale),
             details, scale, k + 1)

\* "if result.frameDetailedResults": the entries of a dict that is neither
\* None nor empty
details_of(res) ==
    IF res.frameDetailedResults = None THEN <<>> ELSE res.frameDetailedResults[1]

\* the body of the loop "for case in combination.cases" (l.829)
combine_case(acc, res, scale) ==
    combine_detailed(
        [acc EXCEPT !.disp_map =
            combine_displacements(@, res.displacements, scale, 1)],
        details_of(res), scale, 1)

\* if r.jointId not in reaction_map: ...; t.fx += r.fx * scale; ...
add_reaction(reaction_map, r, scale) ==
    IF IndexOfJoint(reaction_map, r.jointId, 1) = 0
    THEN Append(reaction_map,
                [jointId |-> r.jointId, f |-> scaled_add(ZeroSix, r.f, scale)])
    ELSE [reaction_map EXCEPT ![IndexOfJoint(reaction_map, r.jointId, 1)].f =
                                  scaled_add(@, r.f, scale)]

RECURSIVE case_reactions(_, _, _, _)
case_reactions(reaction_map, reactions, scale, k) ==
    IF k > Len(reactions) THEN reaction_map
    ELSE case_reactions(add_reaction(reaction_map, reactions[k], scale),
                        reactions, scale, k + 1)

\* "Combine Reactions": the second loop over combination.cases
RECURSIVE combine_reactions(_, _, _, _)
combine_reactions(reaction_map, combination, results_map, i) ==
    IF i > Len(combination.cases) THEN reaction_map
    ELSE combine_reactions(
             case_reactions(reaction_map,
                 results_map[combination.cases[i].caseId].reactions,
                 combination.cases[i].scale, 1),
             combination, results_map, i + 1)

\* the presence check made for one case only
missing_case_one(combination, results_map, i) ==
    IF i <= Len(combination.cases)
       /\ combination.cases[i].caseId \notin DOMAIN results_map
    THEN i ELSE 0

\* "Check presence": the index of the first case whose caseId is no key of
\* results_map, 0 if every case is present
RECURSIVE missing_case(_, _, _)
missing_case(combination, results_map, i) ==
    IF i > Len(combination.cases) THEN 0
    ELSE IF combination.cases[i].caseId \notin DOMAIN results_map THEN i
    ELSE missing_case(combination, results_map, i + 1)

combine_log(combination) == <<<<"Combining results for", combination.name>>>>

\* the AnalysisResults of the try branch
combined_results(combination, acc, reaction_map) ==
    [loadCaseId |-> combination.id,
     caseName |-> <<combination.name>>,
     displacements |-> acc.disp_map,
     frameDetailedResults |-> <<acc.frame_det_map>>,
     reactions |-> reaction_map,
     isValid |-> TRUE,
     maxDisplacement |-> max_disp_sq(acc.disp_map),
     log |-> combine_log(combination)]

\* the AnalysisResults of the except branch
failed_combination(combination, message) ==
    failed_results(combination.id, combine_log(combination), message)

EmptyAcc == [disp_map |-> <<>>, frame_det_map |-> <<>>, raised |-> None]

\* the first loop over combination.cases from case i on
RECURSIVE combine_cases(_, _, _, _)
combine_cases(acc, combination, results_map, i) ==
    IF i > Len(combination.cases) \/ acc.raised # None THEN acc
    ELSE combine_cases(
             combine_case(acc, results_map[combination.cases[i].caseId],
                          combination.cases[i].scale),
             combination, results_map, i + 1)

\* what the try block returns once the presence check has passed
combined_or_failed(combination, results_map, acc) ==
    IF acc.raised # None THEN failed_combination(combination, acc.raised)
    ELSE combined_results(combination, acc,
             combine_reactions(<<>>, combination, results_map, 1))

combine_results(combination, results_map) ==
    IF missing_case(combination, results_map, 1) # 0
    THEN failed_combination(combination,
             <<"Missing results for",
               combination.cases[missing_case(combination, results_map, 1)].caseId>>)
    ELSE combined_or_failed(combination, results_map,
             combine_cases(EmptyAcc, combination, results_map, 1))

(***************************************************************************)
(* The inputs: models on a small grid                                      *)
(***************************************************************************)
GridMax == 2
MaxExtraJoints == 2
MaxSegments == 3
OverSegments == 25

Fixed == <<TRUE, TRUE, TRUE, TRUE, TRUE, TRUE>>
Pinned == <<TRUE, TRUE, TRUE, FALSE, FALSE, FALSE>>

Joint(id, pt, restraint) == NewJoint(id, pt, restraint)
Frame(id, jointI, jointJ) ==
    [id |-> id, jointI |-> jointI, jointJ |-> jointJ, sectionId |-> <<"S1">>,
     orientation |-> 0, offsetY |-> 0, offsetZ |-> 0]

GridPoints == {P(x, y, 0) : x \in 0..GridMax, y \in 0..GridMax}

\* the coordinates of the joints: a beam from (0,1,0) to (GridMax,1,0) and up to
\* MaxExtraJoints more joints anywhere on the grid
JointPlacements ==
    UNION {[1..n -> GridPoints] : n \in 0..MaxExtraJoints}

PointsOf(extra) ==
    <<P(0, 1, 0), P(GridMax, 1, 0)>> \o extra

\* the second frame, by the positions of its joints in the list (0: no second
\* frame); <<1, 9>> ends at a joint id that the model does not have
SecondFrames == {<<0, 0>>, <<3, 4>>, <<4, 3>>, <<2, 3>>, <<3, 1>>, <<1, 9>>}
Dangling(second) == second = <<1, 9>>

AxisAligned(a, b) ==
    Cardinality({k \in 1..3 : a[k] # b[k]}) <= 1

\* joint ids: "pos" numbers the joints 1, 2, 3, ...; "neg" gives the joints after
\* the first two the ids -1, -2, ...
IdPlans == {"pos", "neg"}
IdOf(idplan, k) == IF idplan = "pos" \/ k <= 2 THEN k ELSE 2 - k

\* restraints of the joints, by position
RestraintPlans == {1, 2}
RestraintOf(rplan, k) ==
    CASE rplan = 1 -> IF k = 1 THEN Fixed ELSE IF k = 2 THEN Pinned ELSE None
      [] OTHER -> IF k = 2 THEN get_default_restraint ELSE Fixed

\* the loads of the model
LoadPlans == {1, 2, 3}
DistributedLoad(id, frameId, patternId, direction, w1, w2, d1, d2) ==
    [id |-> id, frameId |-> frameId, patternId |-> patternId,
     direction |-> direction, startMagnitude |-> w1, endMagnitude |-> w2,
     startDistance |-> d1, endDistance |-> d2]
LoadsOf(lplan) ==
    CASE lplan = 1 ->
           <<DistributedLoad("D1", 1, "P1", "Gravity", R(1), R(1), R(0), R(1))>>
      [] lplan = 2 ->
           <<DistributedLoad("D1", 2, "P1", "GlobalX", R(1), R(2), <<1, 4>>, <<3, 4>>),
             DistributedLoad("D2", 1, "P9", "Gravity", R(1), R(1), R(0), R(1)),
             DistributedLoad("D3", 99, "P1", "Gravity", R(1), R(1), R(0), R(1)),
             DistributedLoad("D4", 1, "P1", "GlobalZ", R(0), R(4),
                             <<1, 2>>, <<10001, 20000>>)>>
      [] OTHER -> <<>>
PointLoadsOf(lplan) ==
    IF lplan = 3
    THEN <<[id |-> "PL1", jointId |-> 2, patternId |-> "P1",
            f |-> <<R(0), R(-10), R(0), R(0), R(0), R(1)>>]>>
    ELSE <<>>

BuildModel(extra, second, idplan, rplan, lplan) ==
    LET pts == PointsOf(extra)
    IN  [joints |-> [k \in 1..Len(pts) |->
                        Joint(IdOf(idplan, k), pts[k], RestraintOf(rplan, k))],
         frames |-> <<Frame(1, 1, 2)>> \o
                    (IF second[1] = 0 THEN <<>>
                     ELSE <<Frame(2, IdOf(idplan, second[1]), IdOf(idplan, second[2]))>>),
         frameSections |-> <<[id |-> "S1", materialId |-> "M1", A |-> <<1, 10>>]>>,
         materials |-> <<[id |-> "M1", density |-> R(100)]>>,
         loadPatterns |-> <<[id |-> "P1", selfWeight |-> FALSE],
                            [id |-> "P2", selfWeight |-> TRUE]>>,
         loadCases |-> <<[id |-> "LC1", name |-> "one",
                          patterns |-> <<[patternId |-> "P1", scale |-> R(1)]>>],
                         [id |-> "LC2", name |-> "two",
                          patterns |-> <<[patternId |-> "P1", scale |-> R(2)],
                                         [patternId |-> "P2", scale |-> <<1, 2>>],
                                         [patternId |-> "P7", scale |-> R(1)]>>]>>,
         pointLoads |-> PointLoadsOf(lplan),
         distributedFrameLoads |-> LoadsOf(lplan)]

\* the geometries that are tried with every choice of ids, restraints, loads,
\* configuration and load case
CoreExtras == {<<>>, <<P(1, 0, 0)>>, <<P(1, 1, 0)>>, <<P(1, 0, 0), P(1, 2, 0)>>,
               <<P(1, 1, 0), P(1, 2, 0)>>}

\* a second frame joins two joints of the list along a grid line, or
\* dangles from the first joint of one of the geometries of CoreExtras
GeometryOk(extra, second) ==
    \/ second[1] = 0
    \/ Dangling(second) /\ extra \in CoreExtras
    \/ /\ second[1] <= 2 + Len(extra) /\ second[2] <= 2 + Len(extra)
       /\ AxisAligned(PointsOf(extra)[second[1]], PointsOf(extra)[second[2]])

Configs ==
    [meshing_segments : 0..MaxSegments \cup {OverSegments},
     enable_intersection_check : BOOLEAN,
     use_sparse_solver : BOOLEAN]

LoadCaseIds == {"LC1", "LC2", "LCX"}

\* the default choices; every input departs from them either in its geometry
\* only or in its ids, restraints, loads, configuration and load case only
DefaultRest(idplan, rplan, lplan, config, lc) ==
    /\ idplan = "pos" /\ rplan = 1 /\ lplan = 1 /\ lc = "LC1"
    /\ config.meshing_segments = 2 /\ config.use_sparse_solver

\* negative ids are given to joints that no frame ends at and, in the crossing
\* geometry, to the ends of the second frame (without a distributed load on
\* that frame: the lengths its load is spread over are then irrational)
IdPlanOk(idplan, lplan, extra, second) ==
    \/ idplan = "pos"
    \/ second[1] = 0
    \/ extra = <<P(1, 0, 0), P(1, 2, 0)>> /\ second = <<3, 4>> /\ lplan # 2

\* a meshing_segments above the clamp is tried on the beam alone
SegmentsOk(extra, second, idplan, rplan, config) ==
    \/ config.meshing_segments <= MaxSegments
    \/ extra = <<>> /\ second[1] = 0 /\ idplan = "pos" /\ rplan = 1

\* what varies besides the geometry: every choice for the geometries of
\* CoreExtras, the default choices for the others
Variations(extra) ==
    {y \in IdPlans \X RestraintPlans \X LoadPlans \X Configs \X LoadCaseIds :
        extra \in CoreExtras \/ DefaultRest(y[1], y[2], y[3], y[4], y[5])}

Geometries ==
    {h \in JointPlacements \X SecondFrames : GeometryOk(h[1], h[2])}

AnalyzeInput(g, y) ==
    [model |-> BuildModel(g[1], g[2], y[1], y[2], y[3]),
     load_case_id |-> y[5], config |-> y[4]]

\* the sections of the frames.  Plan 1 leaves "S1" on every frame; under plan 2
\* the last frame has no sectionId, under plan 3 its sectionId names no section
\* of the model, under plan 4 the material of "S1" is not in the model.
SectionPlans == {1, 2, 3, 4}
WithSection(frame, splan) ==
    [frame EXCEPT !.sectionId = IF splan = 2 THEN None ELSE <<"S9">>]
WithSections(m, splan) ==
    CASE splan = 1 -> m
      [] splan = 4 ->
           [m EXCEPT !.frameSections =
                <<[id |-> "S1", materialId |-> "M9", A |-> <<1, 10>>]>>]
      [] OTHER -> [m EXCEPT !.frames[Len(m.frames)] = WithSection(@, splan)]

\* the geometries the section plans are tried on: the beam alone, the beam with
\* a second frame whose two joints coincide, and the two crossing frames
SectionGeometries ==
    {<<<<>>, <<0, 0>>>>, <<<<P(0, 1, 0)>>, <<3, 1>>>>,
     <<<<P(1, 0, 0), P(1, 2, 0)>>, <<3, 4>>>>}
SectionVariations ==
    {y \in Variations(<<>>) :
        /\ y[1] = "pos" /\ y[2] = 1 /\ y[5] \in {"LC1", "LC2"}
        /\ y[4].meshing_segments \in {1, 2} /\ ~y[4].use_sparse_solver}
SectionInput(g, y, splan) ==
    [AnalyzeInput(g, y) EXCEPT !.model = WithSections(@, splan)]

\* a call without a config, analyze_structure(model, load_case_id), as
\* run_analysis makes for a request that has none: on the geometries above,
\* with every choice of loads and both load cases
WithoutConfig(g, lplan, lc) ==
    [model |-> BuildModel(g[1], g[2], "pos", 1, lplan),
     load_case_id |-> lc, config |-> None]

\* a second frame to joint 2 from the id -1: no joint of the model has it, and
\* the mesher gives it to the first interior node of frame 1
InternalJointGeometry == <<<<>>, <<2, 2>>>>
InternalJointInput(y) ==
    [AnalyzeInput(InternalJointGeometry, y) EXCEPT !.model.frames[2].jointI = -1]

(***************************************************************************)
(* analyze_structure, step by step                                         *)
(***************************************************************************)
Idle == <<>>

\* SolverConfig(): the defaults of the fields
SolverConfig ==
    [meshing_segments |-> 6, enable_intersection_check |-> TRUE,
     use_sparse_solver |-> TRUE]

\* if config is None: config = SolverConfig()
config_of(config) == IF config = None THEN SolverConfig ELSE config

Init ==
    /\ \/ \E g \in Geometries :
              \E y \in {z \in Variations(g[1]) :
                           /\ IdPlanOk(z[1], z[3], g[1], g[2])
                           /\ SegmentsOk(g[1], g[2], z[1], z[2], z[4])} :
                  input = AnalyzeInput(g, y)
       \/ \E g \in SectionGeometries :
              \E y \in SectionVariations :
                  \E splan \in SectionPlans \ {1} :
                      input = SectionInput(g, y, splan)
       \/ \E y \in SectionVariations : input = InternalJointInput(y)
       \/ \E g \in SectionGeometries :
              \E lplan \in LoadPlans :
                  \E lc \in {"LC1", "LC2"} :
                      input = WithoutConfig(g, lplan, lc)
    /\ model = input.model
    /\ pc = "call"
    /\ passes = Idle
    /\ log = <<>>
    /\ mesh = Idle
    /\ F = Idle
    /\ sol = Idle
    /\ result = Idle
    /\ combo = Idle
    /\ response = Idle

\* 0. Preprocess: Handle Intersections (Optional).  preprocess_intersections
\* assigns model.joints and model.frames of the object it is given, which is
\* the caller's; a KeyError of its lookups leaves analyze_structure uncaught.
Preprocess ==
    /\ pc = "call"
    /\ IF config_of(input.config).enable_intersection_check
       THEN /\ log' = Append(log, <<"Running intersection detection...">>)
            /\ IF preprocess_raises(model)
               THEN pc' = "raised" /\ UNCHANGED model
               ELSE pc' = "try" /\ model' = preprocess_intersections(model)
       ELSE /\ log' = Append(log, <<"Skipping intersection detection (disabled in config)">>)
            /\ pc' = "try"
            /\ UNCHANGED model
    /\ UNCHANGED <<input, passes, mesh, F, sol, result, combo, response>>

load_case_of(m, load_case_id) == FirstIndexOfId(m.loadCases, load_case_id, 1)

StartAnalysis ==
    /\ pc = "try"
    /\ log' = Append(log, <<"Starting analysis...">>)
    /\ IF load_case_of(model, input.load_case_id) = 0
       THEN /\ result' = failed_results(input.load_case_id, log',
                                        <<"Load case not found", input.load_case_id>>)
            /\ pc' = "done"
       ELSE /\ pc' = "mesh"
            /\ UNCHANGED result
    /\ UNCHANGED <<input, model, passes, mesh, F, sol, combo, response>>

MeshModel ==
    /\ pc = "mesh"
    /\ \E st \in {mesh_model(model, config_of(input.config))} :
           /\ mesh' = [solver_joints |-> st.solver_joints,
                       solver_frames |-> st.solver_frames,
                       frame_mapping |-> st.frame_mapping,
                       joint_id_to_index |-> st.joint_id_to_index]
           /\ log' = log \o st.log \o
                     <<<<"Meshed model", Len(model.joints), Len(st.solver_joints),
                         Len(model.frames), Len(st.solver_frames)>>>>
    /\ pc' = "assemble"
    /\ UNCHANGED <<input, model, passes, F, sol, result, combo, response>>

total_dof_of(ms) == Len(ms.solver_joints) * dof_per_node

Assemble ==
    /\ pc = "assemble"
    /\ LET total_dof == total_dof_of(mesh)
           use_sparse == use_sparse_of(config_of(input.config), total_dof)
           load_case == model.loadCases[load_case_of(model, input.load_case_id)]
           lg == log \o <<<<"System DOF", total_dof>>,
                          IF use_sparse
                          THEN <<"Using sparse matrix solver", total_dof>>
                          ELSE <<"Using dense matrix solver", total_dof>>>>
       IN  IF stiffness_raises(model, mesh)
           THEN /\ result' = failed_results(input.load_case_id, lg,
                                            <<"Frame element has zero length">>)
                /\ log' = lg
                /\ pc' = "done"
                /\ UNCHANGED <<F, sol>>
           ELSE IF loads_raise(model, mesh, load_case)
           THEN /\ result' = failed_results(input.load_case_id, lg,
                                            loads_error(model, mesh, load_case, 1))
                /\ log' = lg
                /\ pc' = "done"
                /\ UNCHANGED <<F, sol>>
           ELSE /\ F' = apply_loads(model, mesh, ZeroF(total_dof), load_case, 1)
                /\ sol' = [use_sparse |-> use_sparse,
                           K |-> create_matrix(use_sparse),
                           assemble |-> assemble_with(use_sparse)]
                /\ log' = lg
                /\ pc' = "solve"
                /\ UNCHANGED result
    /\ UNCHANGED <<input, model, passes, mesh, combo, response>>

\* u_reduced = solve_linear_system(K_reduced, F_reduced) or solve_sparse(...):
\* a vector of n_free numbers.  The factorization is not computed in this
\* specification (SpecDense computes it); the vector is kept as the terms
\* u_reduced[0], ..., u_reduced[n_free - 1]
u_reduced_of(n_free) == [k \in 1..n_free |-> Entry(k - 1)]

SolveSystem ==
    /\ pc = "solve"
    /\ LET free_dofs == free_dofs_of(mesh.solver_joints)
           n_free == Len(free_dofs)
       IN  /\ log' = Append(log, <<"Solving system... (Free DOF)", n_free>>)
           /\ sol' = [use_sparse |-> sol.use_sparse,
                      K |-> sol.K,
                      assemble |-> sol.assemble,
                      solver |-> solve_with(sol.use_sparse),
                      free_dofs |-> free_dofs,
                      u_full |-> scatter(total_dof_of(mesh), free_dofs,
                                         u_reduced_of(n_free))]
    /\ pc' = "post"
    /\ UNCHANGED <<input, model, passes, mesh, F, result, combo, response>>

PostProcess ==
    /\ pc = "post"
    /\ log' = log \o <<<<"Calculating reactions...">>, <<"Analysis complete.">>>>
    /\ result' = valid_results(input.load_case_id,
                     model.loadCases[load_case_of(model, input.load_case_id)],
                     model, mesh, sol.u_full, log')
    /\ pc' = "done"
    /\ UNCHANGED <<input, model, passes, mesh, F, sol, combo, response>>

Next ==
    \/ Preprocess
    \/ StartAnalysis
    \/ MeshModel
    \/ Assemble
    \/ SolveSystem
    \/ PostProcess

Spec == Init /\ [][Next]_vars

(***************************************************************************)
(* analyze_structure with the stiffness matrix, the displacements and the  *)
(* reactions computed (dense storage)                                      *)
(***************************************************************************)
\* dofs: the six DOFs of the start node, then the six of the end node
element_dofs(start_node_idx, end_node_idx) ==
    [i \in 0..11 |-> IF i < 6 THEN start_node_idx * 6 + i
                     ELSE end_node_idx * 6 + (i - 6)]

\* the loop "Assemble Stiffness" over solver_frames, from frame k on
RECURSIVE assemble_stiffness(_, _, _, _)
assemble_stiffness(m, ms, K, k) ==
    IF k > Len(ms.solver_frames) THEN K
    ELSE LET frame == ms.solver_frames[k]
             start_node_idx == get(ms.joint_id_to_index, frame.jointI)
             end_node_idx == get(ms.joint_id_to_index, frame.jointJ)
         IN  IF start_node_idx = NoIndex \/ end_node_idx = NoIndex
                \/ ~resolved(m, frame)
             THEN assemble_stiffness(m, ms, K, k + 1)
             ELSE assemble_stiffness(m, ms,
                      assemble_global(K,
                          transform_stiffness_to_global(
                              frame_element_stiffness(
                                  ms.solver_joints[start_node_idx + 1],
                                  ms.solver_joints[end_node_idx + 1],
                                  m.frameSections[section_of(m, frame)],
                                  m.materials[material_of(m, frame)]),
                              frame_transformation_matrix(
                                  ms.solver_joints[start_node_idx + 1],
                                  ms.solver_joints[end_node_idx + 1],
                                  frame.orientation)),
                          element_dofs(start_node_idx, end_node_idx)),
                      k + 1)

\* K[np.ix_(free_dofs, free_dofs)] and F[free_dofs]
K_reduced_of(K, free_dofs) ==
    np_array([a \in 0..(Len(free_dofs) - 1) |-> [b \in 0..(Len(free_dofs) - 1) |->
        K[free_dofs[a + 1]][free_dofs[b + 1]]]])
F_reduced_of(Fv, free_dofs) ==
    np_array([a \in 0..(Len(free_dofs) - 1) |-> Fv[free_dofs[a + 1]]])

\* u_full = np.zeros(total_dof); u_full[free_dofs] = u_reduced
u_full_of(total_dof, free_dofs, u_reduced) ==
    np_array([d \in 0..(total_dof - 1) |->
        IF \E k \in 1..Len(free_dofs) : free_dofs[k] = d
        THEN u_reduced[(CHOOSE k \in 1..Len(free_dofs) : free_dofs[k] = d) - 1]
        ELSE R(0)])

\* reaction_forces = K @ u_full - F
VecSub(a, b) == np_array([d \in DOMAIN a |-> RSub(a[d], b[d])])
reaction_forces_of(K, u_full, Fv) == VecSub(MatVec(K, u_full), Fv)

\* Reactions: one JointReaction per joint of model.joints, N -> kN
RECURSIVE joint_reactions(_, _, _, _)
joint_reactions(m, ms, reaction_forces, k) ==
    IF k > Len(m.joints) THEN <<>>
    ELSE LET joint == m.joints[k]
             idx == get(ms.joint_id_to_index, joint.id)
         IN  (IF idx # NoIndex
              THEN <<[jointId |-> joint.id, at |-> idx,
                      f |-> [c \in 1..6 |->
                               RDiv(reaction_forces[idx * 6 + (c - 1)],
                                    R(KiloNewton))]]>>
              ELSE <<>>)
             \o joint_reactions(m, ms, reaction_forces, k + 1)

\* Max Disp, kept squared
RECURSIVE max_disp_sq_of(_, _)
max_disp_sq_of(displacements, k) ==
    IF k > Len(displacements) THEN R(0)
    ELSE RMax(NormSq(<<displacements[k].u[1], displacements[k].u[2],
                       displacements[k].u[3]>>),
              max_disp_sq_of(displacements, k + 1))

\* forces = calculate_segment_forces(node_a, node_b, u_a, u_b, section,
\* material, frame.orientation or 0) of sub-segment i (from 0) of the e-th frame
\* of frame_mapping
segment_forces_of(m, ms, u_full, e, i) ==
    calculate_segment_forces(
        ms.solver_joints[ms.frame_mapping[e].jointIndices[i + 1] + 1],
        ms.solver_joints[ms.frame_mapping[e].jointIndices[i + 2] + 1],
        six(u_full, ms.frame_mapping[e].jointIndices[i + 1]),
        six(u_full, ms.frame_mapping[e].jointIndices[i + 2]),
        m.frameSections[section_of(m,
            m.frames[FirstIndexOfId(m.frames, ms.frame_mapping[e].id, 1)])],
        m.materials[material_of(m,
            m.frames[FirstIndexOfId(m.frames, ms.frame_mapping[e].id, 1)])],
        m.frames[FirstIndexOfId(m.frames, ms.frame_mapping[e].id, 1)].orientation)

\* every station reads forces['start'] of its own sub-segment
start_forces_only(m, ms, u_full, e) ==
    [i \in 1..Len(ms.frame_mapping[e].jointIndices) |->
        segment_forces_of(m, ms, u_full, e,
            IF i < Len(ms.frame_mapping[e].jointIndices) THEN i - 1 ELSE i - 2).start]

\* "Calculate Member Forces" of the e-th frame of frame_mapping: fdr.forces[i] =
\* forces['start'] for every sub-segment i, fdr.forces[i+1] = forces['end'] for
\* the last one; the placeholder stays where the frame, its section or its
\* material does not resolve
calculated_forces(m, ms, u_full, e) ==
    IF FirstIndexOfId(m.frames, ms.frame_mapping[e].id, 1) = 0
    THEN [i \in 1..Len(ms.frame_mapping[e].jointIndices) |-> zero_forces]
    ELSE IF ~resolved(m, m.frames[FirstIndexOfId(m.frames, ms.frame_mapping[e].id, 1)])
    THEN [i \in 1..Len(ms.frame_mapping[e].jointIndices) |-> zero_forces]
    ELSE [i \in 1..Len(ms.frame_mapping[e].jointIndices) |->
            IF i < Len(ms.frame_mapping[e].jointIndices)
            THEN segment_forces_of(m, ms, u_full, e, i - 1).start
            ELSE segment_forces_of(m, ms, u_full, e, i - 2).end]

\* frame_detailed_results with the forces computed from the displacements
calculated_results(m, ms, u_full) ==
    [e \in 1..Len(ms.frame_mapping) |->
        [detailed_results(m, ms, u_full)[e] EXCEPT
            !.forces = calculated_forces(m, ms, u_full, e)]]

solved_results(load_case_id, load_case, m, ms, u_full, reaction_forces, lg) ==
    [loadCaseId |-> load_case_id,
     caseName |-> <<load_case.name>>,
     displacements |-> extract_displacements(m, ms, u_full, 1),
     frameDetailedResults |-> <<calculated_results(m, ms, u_full)>>,
     reactions |-> joint_reactions(m, ms, reaction_forces, 1),
     isValid |-> TRUE,
     maxDisplacement |->
         max_disp_sq_of(extract_displacements(m, ms, u_full, 1), 1),
     log |-> lg]

\* the stiffness matrix of the meshed model, the displacements and K @ u - F
StiffnessOf(m, ms) ==
    assemble_stiffness(m, ms, np_zeros(total_dof_of(ms), total_dof_of(ms)), 1)
DisplacementsOf(K, Fv, ms, free_dofs) ==
    u_full_of(total_dof_of(ms), free_dofs,
              solve_linear_system(K_reduced_of(K, free_dofs),
                                  F_reduced_of(Fv, free_dofs)))

\* "Apply Boundary Conditions" to the return of the valid results
SolveAndReport(K, free_dofs, u_full) ==
    /\ log' = log \o <<<<"Solving system... (Free DOF)", Len(free_dofs)>>,
                       <<"Calculating reactions...">>, <<"Analysis complete.">>>>
    /\ sol' = [use_sparse |-> sol.use_sparse, K |-> K,
               assemble |-> sol.assemble,
               solver |-> solve_with(sol.use_sparse),
               free_dofs |-> free_dofs, u_full |-> u_full]
    /\ result' = solved_results(input.load_case_id,
                     model.loadCases[load_case_of(model, input.load_case_id)],
                     model, mesh, u_full, reaction_forces_of(K, u_full, F), log')

SolveDense ==
    /\ pc = "solve"
    /\ ~sol.use_sparse
    /\ SolveAndReport(
           StiffnessOf(model, mesh),
           free_dofs_of(mesh.solver_joints),
           DisplacementsOf(StiffnessOf(model, mesh), F, mesh,
                           free_dofs_of(mesh.solver_joints)))
    /\ pc' = "done"
    /\ UNCHANGED <<input, model, passes, mesh, F, combo, response>>

\* a beam from (0,1,0) to (2,1,0) with stiffness properties, a restraint at
\* each end, and the loads of a load plan or an axial point load at joint 2,
\* meshed into one or two elements (of length 2 or 1)
AxialRoller == <<FALSE, TRUE, TRUE, TRUE, TRUE, TRUE>>
EndRestraints == {Fixed, Pinned, AxialRoller}
\* load plan 4: the axial point load
BeamLoadPlans == {1, 3, 4}
BeamSegments == {1, 2}
BeamModel(r1, r2, lplan) ==
    [BuildModel(<<>>, <<0, 0>>, "pos", 1, IF lplan = 4 THEN 3 ELSE lplan)
     EXCEPT
        !.joints = <<Joint(1, P(0, 1, 0), r1), Joint(2, P(2, 1, 0), r2)>>,
        !.frameSections = <<[id |-> "S1", materialId |-> "M1", A |-> R(2),
                             Iy |-> R(2), Iz |-> R(1), J |-> R(1)]>>,
        !.materials = <<[id |-> "M1", density |-> R(100),
                         E |-> <<1, MegaPascal>>, G |-> <<1, 2 * MegaPascal>>]>>,
        !.pointLoads =
            IF lplan = 4
            THEN <<[id |-> "PL2", jointId |-> 2, patternId |-> "P1",
                    f |-> <<R(3), R(0), R(0), R(0), R(0), R(0)>>]>>
            ELSE @]

InitDense ==
    /\ \E r1 \in EndRestraints, r2 \in EndRestraints, lplan \in BeamLoadPlans,
          segments \in BeamSegments, check \in BOOLEAN :
           input = [model |-> BeamModel(r1, r2, lplan),
                    load_case_id |-> "LC1",
                    config |-> [meshing_segments |-> segments,
                                enable_intersection_check |-> check,
                                use_sparse_solver |-> FALSE]]
    /\ model = input.model
    /\ pc = "call"
    /\ passes = Idle
    /\ log = <<>>
    /\ mesh = Idle
    /\ F = Idle
    /\ sol = Idle
    /\ result = Idle
    /\ combo = Idle
    /\ response = Idle

NextDense ==
    \/ Preprocess
    \/ StartAnalysis
    \/ MeshModel
    \/ Assemble
    \/ SolveDense

SpecDense == InitDense /\ [][NextDense]_vars

(***************************************************************************)
(* One element: its local axes on the three paths, its stiffness, and its  *)
(* assembly into a global matrix of three nodes                            *)
(***************************************************************************)
MaxAssemblies == 2
ElementNodes == 3

AxisDirections ==
    {P(1, 0, 0), P(-1, 0, 0), P(0, 1, 0), P(0, -1, 0), P(0, 0, 1), P(0, 0, -1)}
Orientations == {0, 90, 180, 270}
ElementSections ==
    {[id |-> "S1", materialId |-> "M1", A |-> R(2), Iy |-> R(2), Iz |-> R(1),
      J |-> R(1)],
     [id |-> "S1", materialId |-> "M1", A |-> R(1), Iy |-> R(1), Iz |-> R(3),
      J |-> R(2)]}
ElementMaterials ==
    {[id |-> "M1", density |-> R(100), E |-> <<1, MegaPascal>>,
      G |-> <<1, 2 * MegaPascal>>],
     [id |-> "M1", density |-> R(100), E |-> <<3, MegaPascal>>,
      G |-> <<1, MegaPascal>>]}

\* an element of length len from (1, 1, 1) along the axis direction dir
ElementInput(dir, len, orientation, section, material) ==
    [joint_i |-> Joint(1, P(1, 1, 1), None),
     joint_j |-> Joint(2, VAdd(P(1, 1, 1), VScale(R(len), dir)), None),
     frame |-> [Frame(1, 1, 2) EXCEPT !.orientation = orientation],
     section |-> section, material |-> material]

InitElement ==
    /\ \E dir \in AxisDirections, len \in 1..GridMax, orientation \in Orientations,
          section \in ElementSections, material \in ElementMaterials :
           input = ElementInput(dir, len, orientation, section, material)
    /\ model = Idle
    /\ pc = "element"
    /\ passes = Idle
    /\ log = <<>>
    /\ mesh = Idle
    /\ F = Idle
    /\ sol = Idle
    /\ result = Idle
    /\ combo = Idle
    /\ response = Idle

\* T = frame_transformation_matrix(joint_i, joint_j, frame.orientation)
StiffnessAxes ==
    /\ pc = "element"
    /\ sol' = [T |-> frame_transformation_matrix(input.joint_i, input.joint_j,
                                                 input.frame.orientation)]
    /\ pc' = "axes"
    /\ UNCHANGED <<input, model, passes, log, mesh, F, result, combo, response>>

\* the rotation R of calculate_segment_forces for the same element
RecoveryAxes ==
    /\ pc = "axes"
    /\ sol' = [T |-> sol.T,
               Rot |-> segment_rotation(input.joint_i, input.joint_j,
                                        input.frame.orientation)]
    /\ pc' = "rotation"
    /\ UNCHANGED <<input, model, passes, log, mesh, F, result, combo, response>>

\* "Calculate Local Axes" of a distributed load on the frame
LoadAxes ==
    /\ pc = "rotation"
    /\ sol' = [T |-> sol.T, Rot |-> sol.Rot,
               axes |-> local_axes(input.frame, input.joint_i, input.joint_j)]
    /\ pc' = "local"
    /\ UNCHANGED <<input, model, passes, log, mesh, F, result, combo, response>>

\* k_local, k_global, and the empty global matrices of the two paths
ElementStiffness ==
    /\ pc = "local"
    /\ sol' = [T |-> sol.T, Rot |-> sol.Rot, axes |-> sol.axes,
               k_local |-> frame_element_stiffness(input.joint_i, input.joint_j,
                               input.section, input.material),
               k_global |-> transform_stiffness_to_global(
                               frame_element_stiffness(input.joint_i, input.joint_j,
                                   input.section, input.material),
                               sol.T),
               K |-> np_zeros(ElementNodes * dof_per_node, ElementNodes * dof_per_node),
               K_sparse |-> np_zeros(ElementNodes * dof_per_node,
                                     ElementNodes * dof_per_node),
               assemblies |-> 0]
    /\ pc' = "stiffness"
    /\ UNCHANGED <<input, model, passes, log, mesh, F, result, combo, response>>

\* one more assembly of k_global, between two of the nodes
AssembleElement ==
    /\ pc = "stiffness"
    /\ sol.assemblies < MaxAssemblies
    /\ \E ends \in {<<0, 1>>, <<1, 2>>, <<2, 0>>} :
           sol' = [sol EXCEPT
                     !.K = assemble_global(@, sol.k_global,
                                           element_dofs(ends[1], ends[2])),
                     !.K_sparse = assemble_sparse(@, sol.k_global,
                                                  element_dofs(ends[1], ends[2])),
                     !.assemblies = @ + 1]
    /\ UNCHANGED <<input, model, pc, passes, log, mesh, F, result, combo, response>>

NextElement ==
    \/ StiffnessAxes
    \/ RecoveryAxes
    \/ LoadAxes
    \/ ElementStiffness
    \/ AssembleElement

SpecElement == InitElement /\ [][NextElement]_vars

(***************************************************************************)
(* preprocess_intersections, applied again to what it returned             *)
(***************************************************************************)
MaxFrames == 3
MaxPasses == 2

\* joints on a lattice, numbered by their place in this list
PrePoints ==
    <<P(0, 1, 0), P(2, 1, 0), P(1, 0, 0), P(1, 2, 0), P(1, 1, 0), P(0, 0, 0),
      P(2, 2, 0)>>
\* the frames a model may have, by the ids of their joints
FrameCandidates == {<<1, 2>>, <<3, 4>>, <<6, 7>>, <<3, 5>>, <<1, 4>>}

\* the model BuildModel gives, with other joints and frames
WithGeometry(joints, frames) ==
    [BuildModel(<<>>, <<0, 0>>, "pos", 1, 1) EXCEPT
        !.joints = joints, !.frames = frames]

\* the joints of PrePoints whose ids are in ids, without restraints, and the
\* frames ends[1], ends[2], ... numbered from 1
LatticeModel(ids, ends) ==
    WithGeometry(
        SelectSeq([k \in 1..Len(PrePoints) |-> Joint(k, PrePoints[k], None)],
                  LAMBDA j : j.id \in ids),
        [k \in 1..Len(ends) |-> Frame(k, ends[k][1], ends[k][2])])

LatticeModels ==
    {LatticeModel(ids, ends) :
        ids \in SUBSET (1..Len(PrePoints)),
        ends \in {e \in UNION {[1..n -> FrameCandidates] : n \in 1..MaxFrames} :
                     \A i, k \in 1..Len(e) : i # k => e[i] # e[k]}}

\* a 10 m frame with a joint 1 m and a joint 0.5 mm from its start
NearEndModel ==
    WithGeometry(
        <<Joint(1, P(0, 0, 0), None), Joint(2, P(10, 0, 0), None),
          Joint(3, P(1, 0, 0), None),
          Joint(4, <<<<1, 2000>>, R(0), R(0)>>, None)>>,
        <<Frame(1, 1, 2)>>)

\* a frame of 10 mm and a frame of 5 mm that cross at right angles at their
\* midpoints
SmallCrossModel ==
    WithGeometry(
        <<Joint(1, P(0, 0, 0), None),
          Joint(2, <<<<1, 100>>, R(0), R(0)>>, None),
          Joint(3, <<<<1, 200>>, <<-1, 400>>, R(0)>>, None),
          Joint(4, <<<<1, 200>>, <<1, 400>>, R(0)>>, None)>>,
        <<Frame(1, 1, 2), Frame(2, 3, 4)>>)

\* a 4 m frame with its own section, orientation and offset, a joint 3 m and
\* then a joint 1 m from its start, crossed at its midpoint by a second frame
MultiSplitModel ==
    WithGeometry(
        <<Joint(1, P(0, 0, 0), None), Joint(2, P(4, 0, 0), None),
          Joint(3, P(3, 0, 0), None), Joint(4, P(1, 0, 0), None),
          Joint(5, P(2, -1, 0), None), Joint(6, P(2, 1, 0), None)>>,
        <<[Frame(1, 1, 2) EXCEPT !.sectionId = <<"S2">>, !.orientation = 90,
                                 !.offsetY = 1],
          Frame(2, 5, 6)>>)

\* two crossing frames between joints whose ids are all negative
NegativeIdsModel ==
    WithGeometry(
        <<Joint(-4, P(0, 1, 0), None), Joint(-3, P(2, 1, 0), None),
          Joint(-2, P(1, 0, 0), None), Joint(-1, P(1, 2, 0), None)>>,
        <<Frame(1, -4, -3), Frame(2, -2, -1)>>)

PreModels ==
    {m \in LatticeModels : ~preprocess_raises(m)}
        \cup {NearEndModel, SmallCrossModel, MultiSplitModel, NegativeIdsModel}

InitPre ==
    /\ input \in [model : PreModels]
    /\ model = input.model
    /\ pc = "preprocess"
    /\ passes = <<>>
    /\ log = <<>>
    /\ mesh = Idle
    /\ F = Idle
    /\ sol = Idle
    /\ result = Idle
    /\ combo = Idle
    /\ response = Idle

\* model = preprocess_intersections(model): the object is updated and returned
Pass ==
    /\ pc = "preprocess"
    /\ Len(passes) < MaxPasses
    /\ model' = preprocess_intersections(model)
    /\ passes' = Append(passes, model')
    /\ UNCHANGED <<input, pc, log, mesh, F, sol, result, combo, response>>

NextPre == Pass

SpecPre == InitPre /\ [][NextPre]_vars

(***************************************************************************)
(* combine_results, step by step                                           *)
(***************************************************************************)
MaxCases == 2
MaxStations == 3
MaxJoints == 2
MaxValue == 2

\* the result of a case: nj joints, ns stations on frame 1 (0: no detailed
\* results), every number a multiple of v
CaseResult(nj, ns, v) ==
    [loadCaseId |-> "case",
     caseName |-> None,
     displacements |-> [k \in 1..nj |->
                          [jointId |-> k, u |-> <<v * k, 0, 0, 0, 0, v>>]],
     frameDetailedResults |->
        IF ns = 0 THEN None
        ELSE <<<<[id |-> 1,
                  stations |-> [i \in 1..ns |-> Rat(i - 1, ns - 1)],
                  displacements |-> [i \in 1..ns |->
                      [jointId |-> IF i = 1 THEN 1 ELSE IF i = ns THEN 2 ELSE 1 - i,
                       u |-> <<v * i, 0, 0, 0, 0, 0>>]],
                  forces |-> [i \in 1..ns |-> <<v, i, 0, 0, 0, 0>>]]>>>>,
     reactions |-> <<[jointId |-> 1, f |-> <<0, v, 0, 0, 0, 0>>]>>,
     isValid |-> TRUE,
     maxDisplacement |-> 0,
     log |-> <<>>]

StationCounts == {0} \cup 2..MaxStations

\* results_map: case "A" always, case "B" sometimes
ResultsMaps ==
    {[k \in keys |-> IF k = "A" THEN CaseResult(x[1], x[2], x[3])
                     ELSE CaseResult(y[1], y[2], 1)] :
        keys \in {{"A"}, {"A", "B"}},
        x \in (1..MaxJoints) \X StationCounts \X (1..MaxValue),
        y \in (1..MaxJoints) \X StationCounts}

Combinations ==
    [id : {"COMB1"}, name : {"combo"},
     cases : UNION {[1..n -> [caseId : {"A", "B"}, scale : {1, 2}]] :
                       n \in 0..MaxCases}]

InitCombine ==
    /\ combo \in [combination : Combinations, results_map : ResultsMaps,
                   acc : {EmptyAcc}, i : {1}]
    /\ pc = "combine"
    /\ result = Idle
    /\ input = Idle
    /\ model = Idle
    /\ passes = Idle
    /\ log = <<>>
    /\ mesh = Idle
    /\ F = Idle
    /\ sol = Idle
    /\ response = Idle

\* "Check presence" (l.825-827)
CheckPresence ==
    /\ pc = "combine"
    /\ IF missing_case(combo.combination, combo.results_map, 1) # 0
       THEN /\ result' = combine_results(combo.combination, combo.results_map)
            /\ pc' = "combined"
       ELSE /\ pc' = "cases"
            /\ UNCHANGED result
    /\ UNCHANGED <<input, model, passes, log, mesh, F, sol, combo, response>>

\* one pass of the loop "for case in combination.cases" (l.829-881);
\* results_map[case.caseId] raises KeyError for a key that is absent
CombineCase ==
    /\ pc = "cases"
    /\ combo.i <= Len(combo.combination.cases)
    /\ IF combo.combination.cases[combo.i].caseId \notin DOMAIN combo.results_map
       THEN /\ result' = failed_combination(combo.combination,
                             <<"KeyError", combo.combination.cases[combo.i].caseId>>)
            /\ pc' = "combined"
            /\ UNCHANGED combo
       ELSE \E acc \in {combine_case(combo.acc,
                            combo.results_map[combo.combination.cases[combo.i].caseId],
                            combo.combination.cases[combo.i].scale)} :
                /\ combo' = [combo EXCEPT !.acc = acc, !.i = @ + 1]
                /\ IF acc.raised # None
                   THEN /\ result' = failed_combination(combo.combination, acc.raised)
                        /\ pc' = "combined"
                   ELSE UNCHANGED <<result, pc>>
    /\ UNCHANGED <<input, model, passes, log, mesh, F, sol, response>>

\* "Combine Reactions", max_disp and the return (l.883-916)
ReturnCombined ==
    /\ pc = "cases"
    /\ combo.i > Len(combo.combination.cases)
    /\ result' = combined_results(combo.combination, combo.acc,
                      combine_reactions(<<>>, combo.combination,
                                        combo.results_map, 1))
    /\ pc' = "combined"
    /\ UNCHANGED <<input, model, passes, log, mesh, F, sol, combo, response>>

NextCombine ==
    \/ CheckPresence
    \/ CombineCase
    \/ ReturnCombined

SpecCombine == InitCombine /\ [][NextCombine]_vars

(***************************************************************************)
(* main.py: the endpoints /analyze and /combine                            *)
(***************************************************************************)
HTTPException(status_code, detail) ==
    [status_code |-> status_code, detail |-> detail]

\* the try block of an endpoint: the core call raises, or its invalid result
\* makes the endpoint raise HTTPException(400), or the result is returned
endpoint_try(prefix, core_raised, results) ==
    IF core_raised
    THEN [kind |-> "raise", exc |-> <<"KeyError">>]
    ELSE IF ~results.isValid
    THEN [kind |-> "raise",
          exc |-> HTTPException(400, <<prefix, results.log>>)]
    ELSE [kind |-> "return", value |-> results]

\* except Exception as e: raise HTTPException(status_code=500, detail=str(e));
\* HTTPException is an Exception, so the one raised in the try block is caught too
endpoint_except(outcome) ==
    IF outcome.kind = "raise"
    THEN [status |-> 500, detail |-> <<"str", outcome.exc>>]
    ELSE [status |-> 200, body |-> outcome.value]

run_analysis ==
    /\ pc \in {"done", "raised"}
    /\ response' = endpoint_except(
                       endpoint_try("Analysis failed: ", pc = "raised", result))
    /\ pc' = "responded"
    /\ UNCHANGED <<input, model, passes, log, mesh, F, sol, result, combo>>

run_combination ==
    /\ pc = "combined"
    /\ response' = endpoint_except(
                       endpoint_try("Combination failed: ", FALSE, result))
    /\ pc' = "responded"
    /\ UNCHANGED <<input, model, passes, log, mesh, F, sol, result, combo>>

InitHttp == Init \/ InitCombine

NextHttp ==
    \/ Next
    \/ NextCombine
    \/ run_analysis
    \/ run_combination

SpecHttp == InitHttp /\ [][NextHttp]_vars

(***************************************************************************)
(* Properties of analyze_structure                                         *)
(***************************************************************************)
\* analyze_structure has returned a result with isValid = True
ValidResult == pc = "done" /\ result.isValid

\* the dict frameDetailedResults of a valid result, as a sequence of entries
Detailed == result.frameDetailedResults[1]

\* C1.  Restraint compliance: in every valid result, for every joint of the
\* model and each of its six DOFs whose restraint flag is true, the reported
\* displacement component of that joint is zero.
C1_RestraintCompliance ==
    ValidResult =>
        \A k \in 1..Len(model.joints), d \in 1..Len(result.displacements),
           c \in 1..6 :
            (/\ result.displacements[d].jointId = model.joints[k].id
             /\ restraint_of(model.joints[k])[c])
                => result.displacements[d].u[c] = Literal(0)

\* meshing_segments clamped to [1, 20]
ClampedSegments ==
    IF config_of(input.config).meshing_segments < MinSegments THEN MinSegments
    ELSE IF config_of(input.config).meshing_segments > MaxSegmentsClamp THEN MaxSegmentsClamp
    ELSE config_of(input.config).meshing_segments

\* C2.  Mesh-station count: in every valid result every entry of
\* frameDetailedResults has N + 1 stations, displacements and forces, N being
\* meshing_segments clamped to [1, 20], and stations[i] = i/N for i in 0..N.
C2_StationCount ==
    ValidResult =>
        \A e \in 1..Len(Detailed) :
            /\ Len(Detailed[e].stations) = ClampedSegments + 1
            /\ Len(Detailed[e].displacements) = ClampedSegments + 1
            /\ Len(Detailed[e].forces) = ClampedSegments + 1
            /\ \A i \in 0..ClampedSegments :
                   Detailed[e].stations[i + 1] = Rat(i, ClampedSegments)

\* a valid result with detailed results whose meshing_segments was above the clamp
C2_Witness ==
    /\ ValidResult
    /\ config_of(input.config).meshing_segments > MaxSegmentsClamp
    /\ Len(Detailed) >= 1

\* C3.  frameDetailedResults of a valid result is keyed by the original frame
\* ids: every frame of the input model whose two endpoint joints exist has
\* its id among the keys, also when the preprocessor split that frame.
C3_OriginalFrameKeys ==
    ValidResult =>
        \A k \in 1..Len(input.model.frames) :
            (/\ HasJoint(input.model.joints, input.model.frames[k].jointI)
             /\ HasJoint(input.model.joints, input.model.frames[k].jointJ))
                => \E e \in 1..Len(Detailed) :
                       Detailed[e].id = input.model.frames[k].id

\* the sum of the entries of the load vector in direction c (0: X, 1: Y, 2: Z)
RECURSIVE TotalLoad(_, _, _)
TotalLoad(Fv, c, nodes) ==
    IF nodes = 0 THEN R(0)
    ELSE RAdd(Fv[get_dof_index(nodes - 1, c)], TotalLoad(Fv, c, nodes - 1))

\* what the distributed loads added to the load vector in direction c: F less
\* the vector the same loop builds when the model carries no distributed load
DistributedTotal(c) ==
    RSub(TotalLoad(F, c, Len(mesh.solver_joints)),
         TotalLoad(apply_loads([model EXCEPT !.distributedFrameLoads = <<>>],
                       mesh, ZeroF(total_dof_of(mesh)),
                       model.loadCases[load_case_of(model, input.load_case_id)], 1),
                   c, Len(mesh.solver_joints)))

\* the resultant in direction c (1..3) of one distributed load of the input
\* model under one pattern entry of the load case: the integral of w over the
\* loaded part of the frame, times scale, in newtons; zero when the pattern of
\* the entry is no pattern of the model or not the load's, or the load names no
\* frame of the input model, or a frame with an end that is no joint (it has
\* no length)
LoadResultant(load, entry, c) ==
    IF \/ load.patternId # entry.patternId
       \/ FirstIndexOfId(input.model.loadPatterns, entry.patternId, 1) = 0
       \/ FirstIndexOfId(input.model.frames, load.frameId, 1) = 0
       \/ FrameJointsMissing(input.model,
              input.model.frames[FirstIndexOfId(input.model.frames, load.frameId, 1)])
    THEN R(0)
    ELSE RMul(
             RMul(RMul(RDiv(RAdd(load.startMagnitude, load.endMagnitude), R(2)),
                       RSub(load.endDistance, load.startDistance)),
                  RSqrt(LengthSq(
                      joints_map(input.model.joints,
                          input.model.frames[FirstIndexOfId(input.model.frames,
                                                 load.frameId, 1)].jointI),
                      joints_map(input.model.joints,
                          input.model.frames[FirstIndexOfId(input.model.frames,
                                                 load.frameId, 1)].jointJ)))),
             RMul(RMul(entry.scale, R(KiloNewton)),
                  (CASE load.direction = "GlobalX" -> P(1, 0, 0)
                     [] load.direction = "GlobalY" -> P(0, 1, 0)
                     [] load.direction = "GlobalZ" -> P(0, 0, 1)
                     [] load.direction = "Gravity" -> P(0, -1, 0))[c]))

RECURSIVE ExpectedTotal(_, _, _, _)
ExpectedTotal(loads, entries, c, n) ==
    IF n = 0 THEN R(0)
    ELSE RAdd(LoadResultant(loads[((n - 1) \div Len(entries)) + 1],
                            entries[((n - 1) % Len(entries)) + 1], c),
              ExpectedTotal(loads, entries, c, n - 1))

\* C4.  Every distributed load whose pattern belongs to the selected load case
\* and whose frameId names a frame of the input model contributes its force to
\* the load vector F, also when the preprocessor has split the parent frame:
\* in each direction the distributed loads add up to the sum of their resultants.
C4_DistributedLoadsApplied ==
    (pc \in {"solve", "post"} \/ ValidResult) =>
        \A c \in 0..2 :
            DistributedTotal(c) =
                ExpectedTotal(input.model.distributedFrameLoads,
                    input.model.loadCases[
                        load_case_of(input.model, input.load_case_id)].patterns,
                    c + 1,
                    Len(input.model.distributedFrameLoads) *
                    Len(input.model.loadCases[
                        load_case_of(input.model, input.load_case_id)].patterns))

\* C5.  analyze_structure does not modify the model object it was given: after
\* the call, valid or failed, the caller's model.joints and model.frames are
\* the lists they were before the call.
C5_ModelUnchanged ==
    pc = "done" =>
        /\ model.joints = input.model.joints
        /\ model.frames = input.model.frames

(***************************************************************************)
(* Properties of preprocess_intersections                                  *)
(***************************************************************************)
\* C6.  Intersection idempotence: applying preprocess_intersections to its own
\* output finds no pending split and returns the same joints and the same
\* frames (ids, endpoints, order) as the first output.
C6_Idempotent ==
    (pc = "preprocess" /\ Len(passes) >= 2) =>
        /\ pending_splits(passes[1]) = <<>>
        /\ passes[2].joints = passes[1].joints
        /\ passes[2].frames = passes[1].frames

\* Exact geometry, without tolerances.  0 < t < 1:
StrictlyInside(t) == t[1] > 0 /\ RLt(t, R(1))
IsZero(v) == v[1][1] = 0 /\ v[2][1] = 0 /\ v[3][1] = 0

\* p lies on the segment from a to b, strictly between its ends
ExactOn(p, a, b) ==
    /\ NormSq(VSub(b, a))[1] > 0
    /\ IsZero(Cross(VSub(p, a), VSub(b, a)))
    /\ StrictlyInside(RDiv(Dot(VSub(p, a), VSub(b, a)), NormSq(VSub(b, a))))

\* the point where two segments cross strictly inside both, as <<point>>, or
\* None; u is d1 x d2, t1 and t2 the parameters of the point on each segment
ExactCrossAt(P1, P3, d1, d2, t1, t2) ==
    IF /\ StrictlyInside(t1) /\ StrictlyInside(t2)
       /\ VAdd(P1, VScale(t1, d1)) = VAdd(P3, VScale(t2, d2))
    THEN <<VAdd(P1, VScale(t1, d1))>>
    ELSE None
ExactCrossOf(P1, P3, d1, d2, u, v) ==
    IF NormSq(u)[1] = 0 THEN None
    ELSE ExactCrossAt(P1, P3, d1, d2,
             RDiv(Dot(v, Cross(d2, u)), NormSq(u)),
             RDiv(Dot(v, Cross(d1, u)), NormSq(u)))
ExactCross(P1, P2, P3, P4) ==
    ExactCrossOf(P1, P3, VSub(P2, P1), VSub(P4, P3),
                 Cross(VSub(P2, P1), VSub(P4, P3)), VSub(P3, P1))

StartOf(m, f) == Coords(joints_map(m.joints, f.jointI))
EndOf(m, f) == Coords(joints_map(m.joints, f.jointJ))
FramesCross(m, f, g) ==
    IF FrameJointsMissing(m, f) \/ FrameJointsMissing(m, g) THEN None
    ELSE ExactCross(StartOf(m, f), EndOf(m, f), StartOf(m, g), EndOf(m, g))
JointOnFrame(m, f) ==
    /\ ~FrameJointsMissing(m, f)
    /\ \E k \in 1..Len(m.joints) :
           ExactOn(Coords(m.joints[k]), StartOf(m, f), EndOf(m, f))
\* frame f meets a joint or another frame somewhere between its ends
Touched(m, f) ==
    \/ JointOnFrame(m, f)
    \/ \E g \in 1..Len(m.frames) :
           m.frames[g] # f /\ FramesCross(m, f, m.frames[g]) # None

\* frames a and b of m share no endpoint joint id and cross at one point
\* strictly interior to both, where no joint exists; neither meets anything else
SoleCrossing(m, a, b) ==
    /\ {m.frames[a].jointI, m.frames[a].jointJ}
          \cap {m.frames[b].jointI, m.frames[b].jointJ} = {}
    /\ FramesCross(m, m.frames[a], m.frames[b]) # None
    /\ ~JointOnFrame(m, m.frames[a])
    /\ ~JointOnFrame(m, m.frames[b])
    /\ \A g \in 1..Len(m.frames) :
           g \notin {a, b} =>
               /\ FramesCross(m, m.frames[a], m.frames[g]) = None
               /\ FramesCross(m, m.frames[b], m.frames[g]) = None

\* the joints of out that m did not have and that lie at X
NewJointsAt(m, out, X) ==
    {k \in (Len(m.joints) + 1)..Len(out.joints) : Coords(out.joints[k]) = X}

\* out has exactly one new joint at X, frames a and b of m are gone and in
\* their place stand two sub-frames each, the four frames that end at the new joint
SplitAt(m, out, a, b, X) ==
    /\ Cardinality(NewJointsAt(m, out, X)) = 1
    /\ \A i \in 1..Len(out.frames) :
           out.frames[i].id \notin {m.frames[a].id, m.frames[b].id}
    /\ \A k \in NewJointsAt(m, out, X) :
           /\ Cardinality({i \in 1..Len(out.frames) :
                              out.joints[k].id \in
                                  {out.frames[i].jointI, out.frames[i].jointJ}}) = 4
           /\ {<<out.frames[i].jointI, out.frames[i].jointJ>> :
                   i \in {i \in 1..Len(out.frames) :
                              out.joints[k].id \in
                                  {out.frames[i].jointI, out.frames[i].jointJ}}}
                = {<<m.frames[a].jointI, out.joints[k].id>>,
                   <<out.joints[k].id, m.frames[a].jointJ>>,
                   <<m.frames[b].jointI, out.joints[k].id>>,
                   <<out.joints[k].id, m.frames[b].jointJ>>}

\* C7.  Crossing split: for two frames that share no endpoint joint id and
\* cross at one point strictly interior to both, where no joint exists,
\* preprocess_intersections adds exactly one joint, at the crossing point, and
\* replaces each of the two frames by exactly two sub-frames, all four ending
\* at the new joint; frames not involved in any split are kept unchanged.
C7_CrossingSplit ==
    (pc = "preprocess" /\ Len(passes) >= 1) =>
        /\ \A a, b \in 1..Len(input.model.frames) :
               (a < b /\ SoleCrossing(input.model, a, b)) =>
                   SplitAt(input.model, passes[1], a, b,
                       FramesCross(input.model, input.model.frames[a],
                                   input.model.frames[b])[1])
        /\ \A k \in 1..Len(input.model.frames) :
               ~Touched(input.model, input.model.frames[k]) =>
                   \E i \in 1..Len(passes[1].frames) :
                       passes[1].frames[i] = input.model.frames[k]

(***************************************************************************)
(* Properties of combine_results                                           *)
(***************************************************************************)
Cases == combo.combination.cases
CaseResultOf(i) == combo.results_map[Cases[i].caseId]
AllPresent == \A i \in 1..Len(Cases) : Cases[i].caseId \in DOMAIN combo.results_map

\* the six components a case's result carries for a joint, a reaction or a
\* station of a frame; zeros where the result has no such entry
Carried(res, kind, key, st) ==
    CASE kind = "displacement" ->
           IF \E k \in 1..Len(res.displacements) : res.displacements[k].jointId = key
           THEN res.displacements[CHOOSE k \in 1..Len(res.displacements) :
                                     res.displacements[k].jointId = key].u
           ELSE ZeroSix
      [] kind = "reaction" ->
           IF \E k \in 1..Len(res.reactions) : res.reactions[k].jointId = key
           THEN res.reactions[CHOOSE k \in 1..Len(res.reactions) :
                                 res.reactions[k].jointId = key].f
           ELSE ZeroSix
      [] kind = "station displacement" ->
           IF \E e \in 1..Len(details_of(res)) :
                  details_of(res)[e].id = key
                  /\ st <= Len(details_of(res)[e].displacements)
           THEN details_of(res)[CHOOSE e \in 1..Len(details_of(res)) :
                                   details_of(res)[e].id = key].displacements[st].u
           ELSE ZeroSix
      [] kind = "station forces" ->
           IF \E e \in 1..Len(details_of(res)) :
                  details_of(res)[e].id = key
                  /\ st <= Len(details_of(res)[e].forces)
           THEN details_of(res)[CHOOSE e \in 1..Len(details_of(res)) :
                                   details_of(res)[e].id = key].forces[st]
           ELSE ZeroSix

\* the sum over the first n cases, in list order, of scale times component c
RECURSIVE ScaledSum(_, _, _, _, _)
ScaledSum(n, kind, key, st, c) ==
    IF n = 0 THEN 0
    ELSE ScaledSum(n - 1, kind, key, st, c)
         + Cases[n].scale * Carried(CaseResultOf(n), kind, key, st)[c]

\* every joint, reaction and station that some case carries is in the result,
\* once, and each of its six components is the scaled sum over the cases
SumsOfCases ==
    /\ \A i \in 1..Len(Cases) :
          /\ \A k \in 1..Len(CaseResultOf(i).displacements) :
                 Cardinality({d \in 1..Len(result.displacements) :
                     result.displacements[d].jointId =
                         CaseResultOf(i).displacements[k].jointId}) = 1
          /\ \A k \in 1..Len(CaseResultOf(i).reactions) :
                 Cardinality({d \in 1..Len(result.reactions) :
                     result.reactions[d].jointId =
                         CaseResultOf(i).reactions[k].jointId}) = 1
          /\ \A k \in 1..Len(details_of(CaseResultOf(i))) :
                 \E e \in 1..Len(result.frameDetailedResults[1]) :
                     /\ result.frameDetailedResults[1][e].id =
                            details_of(CaseResultOf(i))[k].id
                     /\ Len(result.frameDetailedResults[1][e].displacements)
                            >= Len(details_of(CaseResultOf(i))[k].displacements)
                     /\ Len(result.frameDetailedResults[1][e].forces)
                            >= Len(details_of(CaseResultOf(i))[k].forces)
    /\ \A d \in 1..Len(result.displacements), c \in 1..6 :
          result.displacements[d].u[c] =
              ScaledSum(Len(Cases), "displacement",
                        result.displacements[d].jointId, 0, c)
    /\ \A d \in 1..Len(result.reactions), c \in 1..6 :
          result.reactions[d].f[c] =
              ScaledSum(Len(Cases), "reaction", result.reactions[d].jointId, 0, c)
    /\ \A e \in 1..Len(result.frameDetailedResults[1]), c \in 1..6 :
          /\ \A st \in 1..Len(result.frameDetailedResults[1][e].displacements) :
                 result.frameDetailedResults[1][e].displacements[st].u[c] =
                     ScaledSum(Len(Cases), "station displacement",
                               result.frameDetailedResults[1][e].id, st, c)
          /\ \A st \in 1..Len(result.frameDetailedResults[1][e].forces) :
                 result.frameDetailedResults[1][e].forces[st][c] =
                     ScaledSum(Len(Cases), "station forces",
                               result.frameDetailedResults[1][e].id, st, c)

\* every two cases that carry detailed results for the same frame carry the
\* same number of displacements and of forces for it
CompatibleStations ==
    \A i, k \in 1..Len(Cases) :
        \A e \in 1..Len(details_of(CaseResultOf(i))),
           g \in 1..Len(details_of(CaseResultOf(k))) :
            details_of(CaseResultOf(i))[e].id = details_of(CaseResultOf(k))[g].id =>
                /\ Len(details_of(CaseResultOf(i))[e].displacements)
                     = Len(details_of(CaseResultOf(k))[g].displacements)
                /\ Len(details_of(CaseResultOf(i))[e].forces)
                     = Len(details_of(CaseResultOf(k))[g].forces)

\* C8 as stated.  Combination law: for a combination whose case ids are all
\* present in results_map, combine_results returns isValid = true and every
\* component of every joint, reaction and station is the sum over the cases,
\* in list order, of scale times the component of that case's result, an
\* absent joint or frame contributing zero.
C8_CombinationLaw_AsStated ==
    (pc = "combined" /\ AllPresent) => (result.isValid /\ SumsOfCases)

\* C8, amended.  The combination law for a combination whose case ids are all
\* present in results_map and whose cases carry the same number of stations
\* for every frame they share.
C8_CombinationLaw ==
    (pc = "combined" /\ AllPresent /\ CompatibleStations) =>
        (result.isValid /\ SumsOfCases)

\* two cases with different ids, both with detailed results, were combined
C8_Witness ==
    /\ pc = "combined" /\ AllPresent /\ CompatibleStations
    /\ Len(Cases) = 2
    /\ Cases[1].caseId # Cases[2].caseId
    /\ Cases[2].scale = 2
    /\ details_of(CaseResultOf(1)) # <<>>
    /\ details_of(CaseResultOf(2)) # <<>>
    /\ Len(CaseResultOf(1).displacements) # Len(CaseResultOf(2).displacements)

\* C9.  MissingCase: if any caseId of the combination is absent from
\* results_map, combine_results accumulates nothing and returns isValid =
\* false, loadCaseId = combination.id, empty displacements and reactions and
\* a log whose last entry is the error naming the missing case.
C9_MissingCase ==
    (pc = "combined" /\ ~AllPresent) =>
        /\ ~result.isValid
        /\ result.loadCaseId = combo.combination.id
        /\ result.displacements = <<>>
        /\ result.reactions = <<>>
        /\ \E i \in 1..Len(Cases) :
               /\ Cases[i].caseId \notin DOMAIN combo.results_map
               /\ result.log[Len(result.log)] =
                      <<"Error:", <<"Missing results for", Cases[i].caseId>>>>
        /\ combo.acc = EmptyAcc

\* the combination names a case that is present and then one that is missing
C9_Witness ==
    /\ pc = "combined"
    /\ Len(Cases) = 2
    /\ Cases[1].caseId \in DOMAIN combo.results_map
    /\ Cases[2].caseId \notin DOMAIN combo.results_map
    /\ ~result.isValid

\* C10.  IncompatibleStations: whenever two cases of a combination carry
\* detailed results for the same frame id with different numbers of stations,
\* combine_results returns isValid = false, whichever of the two comes first.
C10_IncompatibleStations ==
    (pc = "combined" /\ AllPresent /\ ~CompatibleStations) => ~result.isValid

\* analyze_structure is over: it returned or an exception left it
Finished == pc \in {"done", "raised"}

\* C12.  Unknown load case: if loadCaseId matches no load case of the model,
\* analyze_structure returns a result with isValid = false, empty
\* displacements and reactions, no frameDetailedResults, maxDisplacement 0 and
\* a log that is the progress lines written so far followed by exactly one
\* entry holding the error message; nothing is meshed, assembled or solved.
C12_UnknownLoadCase ==
    (Finished /\ load_case_of(input.model, input.load_case_id) = 0) =>
        /\ pc = "done"
        /\ ~result.isValid
        /\ result.displacements = <<>>
        /\ result.reactions = <<>>
        /\ result.frameDetailedResults = None
        /\ result.maxDisplacement = 0
        /\ result.log = Append(log, <<"Error:", <<"Load case not found", input.load_case_id>>>>)
        /\ mesh = Idle /\ F = Idle /\ sol = Idle

\* C13.  Solver storage selection: the sparse assembly and solve path is
\* taken if and only if config.use_sparse_solver is true and the total DOF,
\* 6 * |solver_joints|, is strictly greater than 100; otherwise the dense
\* path; assembly and solve use the same choice.
C13_StorageSelection ==
    sol # Idle =>
        IF config_of(input.config).use_sparse_solver /\ 6 * Len(mesh.solver_joints) > 100
        THEN /\ sol.K = "create_sparse_matrix"
             /\ sol.assemble = "assemble_sparse"
             /\ "solver" \in DOMAIN sol => sol.solver = "solve_sparse"
        ELSE /\ sol.K = "np.zeros"
             /\ sol.assemble = "assemble_global"
             /\ "solver" \in DOMAIN sol => sol.solver = "solve_linear_system"

\* a run that solved on the sparse path
C13_Witness ==
    /\ ValidResult
    /\ 6 * Len(mesh.solver_joints) > 100
    /\ sol.solver = "solve_sparse"

\* a run with the sparse option set that stayed on the dense path
C13_WitnessDense ==
    /\ ValidResult
    /\ config_of(input.config).use_sparse_solver
    /\ sol.solver = "solve_linear_system"

\* the place of a log entry among the stage milestones (0: not a milestone)
Milestone(entry) ==
    CASE entry[1] \in {"Running intersection detection...",
                       "Skipping intersection detection (disabled in config)"} -> 1
      [] entry[1] = "Starting analysis..." -> 2
      [] entry[1] = "Meshed model" -> 3
      [] entry[1] = "System DOF" -> 4
      [] entry[1] \in {"Using sparse matrix solver", "Using dense matrix solver"} -> 5
      [] entry[1] = "Solving system... (Free DOF)" -> 6
      [] entry[1] = "Calculating reactions..." -> 7
      [] entry[1] = "Analysis complete." -> 8
      [] OTHER -> 0

\* the milestones of a log come in their fixed order, each at most once
InOrder(lg) ==
    \A i, k \in 1..Len(lg) :
        (i < k /\ Milestone(lg[i]) > 0 /\ Milestone(lg[k]) > 0) =>
            Milestone(lg[i]) < Milestone(lg[k])

Returned ==
    /\ pc = "done" /\ result.isValid
    /\ result.log[Len(result.log)] = <<"Analysis complete.">>

Failed ==
    /\ pc = "done" /\ ~result.isValid
    /\ result.log[Len(result.log)][1] = "Error:"
    /\ \A i \in 1..Len(result.log) : Milestone(result.log[i]) # 8
    /\ result.displacements = <<>> /\ result.reactions = <<>>
    /\ result.frameDetailedResults = None

\* C14.  Pipeline progression: in every run of analyze_structure the stage
\* milestones are logged in their fixed order, each at most once; the run
\* starts with the preprocess milestone and ends either returned (valid, last
\* log entry "Analysis complete.") or failed (invalid, last log entry an
\* error, no "Analysis complete.", no result data).
C14_PipelineProgression ==
    /\ InOrder(log)
    /\ pc # "call" => Milestone(log[1]) = 1
    /\ Finished => (pc = "done" /\ InOrder(result.log) /\ (Returned \/ Failed))

\* the frames of the model that the mesher does not skip, in order
RECURSIVE MeshedFrames(_, _)
MeshedFrames(m, k) ==
    IF k > Len(m.frames) THEN <<>>
    ELSE (IF FrameJointsMissing(m, m.frames[k]) THEN <<>> ELSE <<m.frames[k]>>)
         \o MeshedFrames(m, k + 1)

\* the place (0-based) of the joint with this id in the joints of the model
ModelIndex(id) == LastIndexOfId(model.joints, id, Len(model.joints)) - 1

\* the j-th meshed frame f became N sub-frames chained over N - 1 new joints
MeshedAs(f, j, N) ==
    LET e == FirstIndexOfId(mesh.frame_mapping, f.id, 1)
    IN  /\ e # 0
        /\ Len(mesh.frame_mapping[e].jointIndices) = N + 1
        /\ mesh.frame_mapping[e].jointIndices[1] = ModelIndex(f.jointI)
        /\ mesh.frame_mapping[e].jointIndices[N + 1] = ModelIndex(f.jointJ)
        /\ \A k \in 2..N :
              /\ mesh.frame_mapping[e].jointIndices[k] >= Len(model.joints)
              /\ mesh.solver_joints[mesh.frame_mapping[e].jointIndices[k] + 1].restraint
                     = get_default_restraint
              /\ \A l \in 2..N :
                    l # k => mesh.frame_mapping[e].jointIndices[l]
                                 # mesh.frame_mapping[e].jointIndices[k]
        /\ \A k \in 1..N :
              LET sub == mesh.solver_frames[(j - 1) * N + k]
              IN  /\ sub.jointI =
                         mesh.solver_joints[mesh.frame_mapping[e].jointIndices[k] + 1].id
                  /\ sub.jointJ =
                         mesh.solver_joints[mesh.frame_mapping[e].jointIndices[k + 1] + 1].id
                  /\ sub.sectionId = f.sectionId
                  /\ sub.orientation = f.orientation
                  /\ sub.offsetY = f.offsetY
                  /\ sub.offsetZ = f.offsetZ

\* C16.  Mesher structure: with N the clamped meshing_segments, every frame
\* of the model whose two endpoint joints exist is replaced by exactly N
\* sub-frames chained from jointI to jointJ over exactly N - 1 newly appended,
\* fully free joints, each sub-frame copying sectionId, orientation and
\* offsets; its frame_mapping has N + 1 entries, the first the index of
\* jointI and the last the index of jointJ; |solver_joints| = |joints| +
\* (N - 1) * |meshed frames|.
C16_MesherStructure ==
    mesh # Idle =>
        /\ Len(mesh.solver_frames) = ClampedSegments * Len(MeshedFrames(model, 1))
        /\ Len(mesh.solver_joints) =
               Len(model.joints) + (ClampedSegments - 1) * Len(MeshedFrames(model, 1))
        /\ \A j \in 1..Len(MeshedFrames(model, 1)) :
               MeshedAs(MeshedFrames(model, 1)[j], j, ClampedSegments)

\* the model a pass was given
Before(p) == IF p = 1 THEN input.model ELSE passes[p - 1]

Near(a, b) == NormLtTol(NormSq(VSub(a, b)))
DistSq(m, f, id, joints) ==
    NormSq(VSub(Coords(joints_map(joints, id)),
                Coords(joints_map(m.joints, f.jointI))))

\* out.frames[a], ..., out.frames[a + k] are the sub-frames of f for its k
\* split points: a chain from jointI to jointJ, through the split joints in
\* increasing distance from jointI, with the parent's attributes, and an
\* existing joint's id wherever a split point is within tolerance of one
ChainAt(m, out, f, splits, a) ==
    LET k == Len(splits)
        sub(i) == out.frames[a + i]
    IN  /\ a + k <= Len(out.frames)
        /\ sub(0).jointI = f.jointI
        /\ sub(k).jointJ = f.jointJ
        /\ \A i \in 0..k :
              /\ sub(i).sectionId = f.sectionId
              /\ sub(i).orientation = f.orientation
              /\ sub(i).offsetY = f.offsetY
              /\ sub(i).offsetZ = f.offsetZ
        /\ \A i \in 0..(k - 1) :
              /\ sub(i).jointJ = sub(i + 1).jointI
              /\ HasJoint(out.joints, sub(i).jointJ)
              /\ (\E j \in 1..Len(m.joints) :
                      Near(Coords(m.joints[j]),
                           Coords(joints_map(out.joints, sub(i).jointJ))))
                     => HasJoint(m.joints, sub(i).jointJ)
        /\ \A i \in 0..(k - 2) :
              RLt(DistSq(m, f, sub(i).jointJ, out.joints),
                  DistSq(m, f, sub(i + 1).jointJ, out.joints))
        /\ \A s \in 1..k : \E i \in 0..(k - 1) :
              Near(Coords(joints_map(out.joints, sub(i).jointJ)), splits[s].pt)

\* the split points of all frames, and those within tolerance of no joint of m
SplitPoints(ps) ==
    UNION {{ps[e].splits[s].pt : s \in 1..Len(ps[e].splits)} :
              e \in 1..Len(ps)}
CrossingPoints(m, ps) ==
    {pt \in SplitPoints(ps) :
        \A j \in 1..Len(m.joints) : ~Near(Coords(m.joints[j]), pt)}

RECURSIVE SubFrameCount(_, _)
SubFrameCount(ps, e) ==
    IF e > Len(ps) THEN 0
    ELSE Len(ps[e].splits) + 1 + SubFrameCount(ps, e + 1)

SplitEmission(m, out) ==
    LET ps == pending_splits(m)
    IN  /\ Len(out.frames) = Len(m.frames) - Len(ps) + SubFrameCount(ps, 1)
        /\ Len(out.joints) = Len(m.joints) + Cardinality(CrossingPoints(m, ps))
        /\ \A e \in 1..Len(ps) :
              LET f == m.frames[FirstIndexOfId(m.frames, ps[e].f_id, 1)]
              IN  /\ Len(ps[e].splits) >= 1
                  /\ \A i \in 1..Len(out.frames) : out.frames[i].id # f.id
                  /\ \E a \in 1..Len(out.frames) :
                        ChainAt(m, out, f, ps[e].splits, a)

\* C17.  Split emission: a frame with k >= 1 pending split points is removed
\* and replaced by exactly k+1 sub-frames chaining from its jointI to its
\* jointJ through the split joints in increasing distance from jointI, each
\* with the parent's sectionId, orientation, offsetY and offsetZ; a split point
\* within tolerance of an existing joint reuses that joint's id, so that only
\* crossings away from every joint add a joint.
C17_SplitEmission ==
    \A p \in 1..Len(passes) : SplitEmission(Before(p), passes[p])

\* a pass has split a frame at three points collected out of order, two of
\* them at existing joints and one at a crossing
C17_Witness ==
    /\ Len(passes) >= 1
    /\ \E e \in 1..Len(pending_splits(input.model)) :
          LET sp == pending_splits(input.model)[e].splits
          IN  /\ Len(sp) = 3
              /\ RLt(sp[2].t, sp[1].t)
              /\ \E s \in 1..3 : sp[s].pt \in
                     CrossingPoints(input.model, pending_splits(input.model))
    /\ Len(passes[1].frames) = 6
    /\ Len(passes[1].joints) = Len(input.model.joints) + 1

\* the joints a pass appended to the joints of the model it was given
Allocated(m, out) == (Len(m.joints) + 1)..Len(out.joints)

AllocatedIdsOk(m, out) ==
    \A i \in Allocated(m, out) :
        /\ out.joints[i].id > 0
        /\ \A j \in Allocated(m, out) :
              j < i => out.joints[j].id < out.joints[i].id
        /\ out.joints[i].id \notin JointIds(m.joints)

\* C18.  Every joint allocated by preprocess_intersections has a positive id,
\* greater than the id of every joint allocated before it in the same pass and
\* different from every joint id of the model it was given, whatever integer
\* ids the model's joints have.
C18_AllocatedIds ==
    \A p \in 1..Len(passes) : AllocatedIdsOk(Before(p), passes[p])

\* the ids the mesher gave to the joints it appended
InteriorIds ==
    {mesh.solver_joints[i].id : i \in (Len(model.joints) + 1)..Len(mesh.solver_joints)}

\* C19.  Mesh joint ids never collide with model joint ids: the solver joints
\* have pairwise distinct ids and joint_id_to_index maps each id to the index
\* of its own joint; in a valid result every reaction reported for a model
\* joint is read at that joint's own index, and no reported displacement or
\* reaction carries the id of an interior mesh joint.
C19_NoIdCollision ==
    mesh # Idle =>
        /\ \A i, j \in 1..Len(mesh.solver_joints) :
               i # j => mesh.solver_joints[i].id # mesh.solver_joints[j].id
        /\ \A i \in 1..Len(mesh.solver_joints) :
               get(mesh.joint_id_to_index, mesh.solver_joints[i].id) = i - 1
        /\ ValidResult =>
               /\ \A r \in 1..Len(result.reactions), k \in 1..Len(model.joints) :
                      result.reactions[r].jointId = model.joints[k].id
                          => result.reactions[r].at = k - 1
               /\ \A r \in 1..Len(result.reactions) :
                      result.reactions[r].jointId \notin InteriorIds
               /\ \A d \in 1..Len(result.displacements) :
                      result.displacements[d].jointId \notin InteriorIds

\* the frames of m whose end joints are distinct ids at the same coordinates
ZeroLength(m, f) ==
    /\ ~FrameJointsMissing(m, f)
    /\ f.jointI # f.jointJ
    /\ Coords(joints_map(m.joints, f.jointI)) = Coords(joints_map(m.joints, f.jointJ))
ZeroLengthFrames(m) ==
    {m.frames[i] : i \in {k \in 1..Len(m.frames) : ZeroLength(m, m.frames[k])}}

Preprocessed ==
    /\ config_of(input.config).enable_intersection_check
    /\ pc \in {"try", "mesh", "assemble", "solve", "done"}

\* C20.  Zero-length frames are dropped by the intersection preprocessor: a
\* frame of the input whose end joints are distinct ids at the same coordinates
\* is not a frame of the preprocessed model, and the analysis does not fail
\* with 'Frame element has zero length'.
C20_ZeroLengthDropped ==
    (Preprocessed /\ ZeroLengthFrames(input.model) # {}) =>
        /\ \A i \in 1..Len(model.frames) :
               /\ model.frames[i] \notin ZeroLengthFrames(input.model)
               /\ ~ZeroLength(model, model.frames[i])
        /\ pc = "done" =>
               result.log[Len(result.log)] #
                   <<"Error:", <<"Frame element has zero length">>>>

\* the sum over all solver nodes of the applied force component c, in kN
AppliedSum(c) ==
    RDiv(RSum([i \in 0..(Len(mesh.solver_joints) - 1) |-> F[i * 6 + (c - 1)]],
              Len(mesh.solver_joints)),
         R(KiloNewton))
\* the sum of the reported reaction component c
ReactionSum(c) ==
    RSum([r \in 0..(Len(result.reactions) - 1) |-> result.reactions[r + 1].f[c]],
         Len(result.reactions))
\* |q| < 1e-6
WithinMicro(q) == Abs(q[1]) * 1000000 < q[2]

\* C15.  Equilibrium: in every valid result, for each global translational
\* component, the reactions reported for the model's joints and the applied
\* forces sum to zero within 1e-6 kN.
C15_Equilibrium ==
    ValidResult =>
        \A c \in 1..3 : WithinMicro(RAdd(ReactionSum(c), AppliedSum(c)))

\* the solver sub-frames between two solver nodes at the same coordinates
DegenerateSubFrames(ms) ==
    {k \in 1..Len(ms.solver_frames) :
        LET start_node_idx == get(ms.joint_id_to_index, ms.solver_frames[k].jointI)
            end_node_idx == get(ms.joint_id_to_index, ms.solver_frames[k].jointJ)
        IN  /\ start_node_idx # NoIndex /\ end_node_idx # NoIndex
            /\ degenerate(ms.solver_joints[start_node_idx + 1],
                          ms.solver_joints[end_node_idx + 1])}

Assembled == pc \in {"solve", "post", "done"} /\ mesh # Idle

\* C21.  DegenerateElement: when a solver sub-frame has length below 1e-6 the
\* analysis does not get past the assembly, and it ends with isValid = false and
\* an "Error:" entry as the last of its log, whether or not the section and the
\* material of that sub-frame resolve.
C21_DegenerateElement ==
    (Assembled /\ DegenerateSubFrames(mesh) # {}) =>
        /\ pc = "done"
        /\ ~result.isValid
        /\ result.log[Len(result.log)][1] = "Error:"

\* the frames of m without a section or without the material of their section
Unresolved(m) == {i \in 1..Len(m.frames) : ~resolved(m, m.frames[i])}

\* the mesh without the sub-frames whose section or material does not resolve
ResolvedOnly(m, ms) ==
    [ms EXCEPT !.solver_frames =
        SelectSeq(ms.solver_frames, LAMBDA frame : resolved(m, frame))]

\* a log entry that is neither a stage milestone nor the error of a failed run
Warning(entry) == Milestone(entry) = 0 /\ entry[1] # "Error:"

\* the run is past the mesher and neither the stiffness loop nor the loads raise
Recoverable ==
    /\ pc = "done" /\ mesh # Idle
    /\ load_case_of(model, input.load_case_id) # 0
    /\ ~stiffness_raises(model, mesh)
    /\ ~loads_raise(model, mesh,
                    model.loadCases[load_case_of(model, input.load_case_id)])

\* what C22 says apart from the warning: the frame adds nothing to the
\* self-weight, the result is valid and the forces of the frame are all zero
MissingSectionSilent ==
    (Recoverable /\ Unresolved(model) # {}) =>
        /\ result.isValid
        /\ self_weight(model, mesh, ZeroF(total_dof_of(mesh)), R(1), 1) =
               self_weight(model, ResolvedOnly(model, mesh),
                           ZeroF(total_dof_of(mesh)), R(1), 1)
        /\ \A e \in 1..Len(result.frameDetailedResults[1]) :
               \A i \in Unresolved(model) :
                   result.frameDetailedResults[1][e].id = model.frames[i].id =>
                       \A st \in DOMAIN result.frameDetailedResults[1][e].forces :
                           result.frameDetailedResults[1][e].forces[st] = ZeroForces

\* C22.  Missing section or material is recoverable: a frame whose sectionId is
\* null or unresolved, or whose section names a material that the model does not
\* have, adds nothing to the self-weight, the result is valid with zero forces
\* at every station of that frame, and the log has a warning.
C22_MissingSectionRecoverable ==
    /\ MissingSectionSilent
    /\ (Recoverable /\ Unresolved(model) # {}) =>
           \E i \in 1..Len(result.log) : Warning(result.log[i])

\* a finished run whose reduced stiffness matrix np.linalg.solve finds singular
SingularRun ==
    /\ pc = "done" /\ sol # Idle /\ "u_full" \in DOMAIN sol
    /\ sol.free_dofs # <<>>
    /\ singular(K_reduced_of(sol.K, sol.free_dofs))

\* what C23 says apart from the warning: the displacements are the least-squares
\* solution of the reduced system and the result is valid
FallbackSilent ==
    SingularRun =>
        /\ result.isValid
        /\ sol.u_full =
               u_full_of(total_dof_of(mesh), sol.free_dofs,
                         linalg_lstsq(K_reduced_of(sol.K, sol.free_dofs),
                                      F_reduced_of(F, sol.free_dofs)))

\* C23.  Singular system fallback: when the reduced system is singular the
\* solver returns its least-squares solution, the result has isValid = true, and
\* the log of the result has a warning about the singular system.
C23_SingularFallback ==
    /\ FallbackSilent
    /\ SingularRun => \E i \in 1..Len(result.log) : Warning(result.log[i])

\* the 3 x 3 rotation R = [lx; ly; lz] in the first diagonal block of T
RotationOf(T) ==
    <<<<T[0][0], T[0][1], T[0][2]>>, <<T[1][0], T[1][1], T[1][2]>>,
      <<T[2][0], T[2][1], T[2][2]>>>>

\* C24.  Force recovery uses the same local axes as stiffness assembly: for an
\* axis-aligned element and an orientation that is a multiple of 90 degrees,
\* the rotation built in calculate_segment_forces equals the rotation
\* [lx; ly; lz] that frame_transformation_matrix builds for the same end points
\* and orientation.
C24_RecoveryAxes ==
    pc \in {"rotation", "local", "stiffness"} => sol.Rot = RotationOf(sol.T)

\* C25.  Local-direction distributed loads use the element axes of the
\* stiffness path: the unit direction of a LocalX, LocalY or LocalZ load is row
\* lx, ly or lz of the rotation of frame_transformation_matrix for the end
\* points and the orientation of the frame.
C25_LoadAxes ==
    pc \in {"local", "stiffness"} =>
        \A direction \in {"LocalX", "LocalY", "LocalZ"} :
            load_direction([direction |-> direction], input.frame,
                           input.joint_i, input.joint_j)
                = RotationOf(sol.T)[CASE direction = "LocalX" -> 1
                                      [] direction = "LocalY" -> 2
                                      [] OTHER -> 3]

Symmetric(A) == \A i \in DOMAIN A : \A j \in DOMAIN A : A[i][j] = A[j][i]

\* C27.  Symmetry of the stiffness: the 12 x 12 local stiffness returned by
\* frame_element_stiffness is symmetric, and the global matrix is symmetric
\* after every sequence of element assemblies, on the dense path
\* (assemble_global) and on the sparse path (assemble_sparse).
C27_Symmetry ==
    pc = "stiffness" =>
        /\ Symmetric(sol.k_local)
        /\ Symmetric(sol.K)
        /\ Symmetric(sol.K_sparse)

\* two assemblies of a rotated element have filled entries off the diagonal of
\* both global matrices
C27_Witness ==
    /\ pc = "stiffness" /\ sol.assemblies = MaxAssemblies
    /\ input.frame.orientation = 90
    /\ RotationOf(sol.T) # <<P(1, 0, 0), P(0, 1, 0), P(0, 0, 1)>>
    /\ \E i \in DOMAIN sol.K : \E j \in DOMAIN sol.K :
           i < j /\ ~IsZeroR(sol.K[i][j]) /\ ~IsZeroR(sol.K_sparse[i][j])

\* start and end of a force record pair agree in P, V2, V3 and T
ConstantAlong(forces) ==
    /\ forces.start.P = forces.end.P /\ forces.start.V2 = forces.end.V2
    /\ forces.start.V3 = forces.end.V3 /\ forces.start.T = forces.end.T

StationForces(fdr, e) ==
    /\ Len(fdr.forces) = Len(fdr.stations)
    /\ \A i \in 0..(Len(fdr.stations) - 2) :
           /\ fdr.forces[i + 1] =
                  segment_forces_of(model, mesh, sol.u_full, e, i).start
           /\ ConstantAlong(segment_forces_of(model, mesh, sol.u_full, e, i))
    /\ fdr.forces[Len(fdr.stations)] =
           segment_forces_of(model, mesh, sol.u_full, e, Len(fdr.stations) - 2).end

\* C26.  Station force assignment: for a frame with N sub-segments and a
\* resolved section and material, station i < N carries the start forces of
\* sub-segment i and station N the end forces of sub-segment N-1; the start
\* and the end forces of one sub-segment have the same P, V2, V3 and T.
C26_StationForces ==
    ValidResult =>
        \A e \in 1..Len(result.frameDetailedResults[1]) :
            resolved(model, model.frames[FirstIndexOfId(model.frames,
                                             mesh.frame_mapping[e].id, 1)])
                => StationForces(result.frameDetailedResults[1][e], e)

\* a frame of two sub-segments under load: the last station carries a moment
\* that the start of its sub-segment does not, and the shear changes at the
\* middle station
C26_Witness ==
    /\ ValidResult
    /\ Len(result.frameDetailedResults[1][1].stations) = 3
    /\ result.frameDetailedResults[1][1].forces[3].M3 #
           result.frameDetailedResults[1][1].forces[2].M3
    /\ result.frameDetailedResults[1][1].forces[1].V2 #
           result.frameDetailedResults[1][1].forces[2].V2
    /\ ~IsZeroR(result.frameDetailedResults[1][1].forces[1].M3)

\* the load vector that the distributed load alone produces under the load
\* case of the run: no point loads, no self-weight, no other distributed load
AloneOf(m, load) ==
    [m EXCEPT !.distributedFrameLoads = <<load>>,
              !.pointLoads = <<>>,
              !.loadPatterns = [i \in 1..Len(m.loadPatterns) |->
                                   [m.loadPatterns[i] EXCEPT !.selfWeight = FALSE]]]
LumpedBy(load) ==
    apply_loads(AloneOf(model, load), mesh, ZeroF(total_dof_of(mesh)),
                model.loadCases[load_case_of(model, input.load_case_id)], 1)

\* the scale of the load in the load case: the scales of the entries of its
\* pattern, from entry k on
RECURSIVE CaseScale(_, _, _)
CaseScale(load, entries, k) ==
    IF k > Len(entries) THEN R(0)
    ELSE RAdd(IF entries[k].patternId = load.patternId
                 /\ FirstIndexOfId(model.loadPatterns, entries[k].patternId, 1) # 0
              THEN entries[k].scale ELSE R(0),
              CaseScale(load, entries, k + 1))

\* the integral of the load's w over the part of [a, b] inside its range, per
\* unit of frame length
Integral(load, a, b) ==
    IF RLe(RMin(b, load.endDistance), RMax(a, load.startDistance)) THEN R(0)
    ELSE RMul(RDiv(RAdd(w_at(load, RMax(a, load.startDistance),
                             RSub(load.endDistance, load.startDistance)),
                        w_at(load, RMin(b, load.endDistance),
                             RSub(load.endDistance, load.startDistance))),
                   R(2)),
              RSub(RMin(b, load.endDistance), RMax(a, load.startDistance)))

\* the end joints and the length of the frame of the load in the analysed model
LoadedFrame(load) == model.frames[load_frame(model, load)]
LoadedStart(load) ==
    model.joints[FirstIndexOfId(model.joints, LoadedFrame(load).jointI, 1)]
LoadedEnd(load) ==
    model.joints[FirstIndexOfId(model.joints, LoadedFrame(load).jointJ, 1)]
LoadedLength(load) == RSqrt(LengthSq(LoadedStart(load), LoadedEnd(load)))

\* the force of the load in newtons over the part [a, b] of the frame
ForceOver(load, a, b) ==
    RMul(RMul(RMul(Integral(load, a, b), LoadedLength(load)),
              CaseScale(load, model.loadCases[
                  load_case_of(model, input.load_case_id)].patterns, 1)),
         R(KiloNewton))

\* half of the force over every sub-segment at each of its two end nodes, in
\* the direction of the load, from sub-segment i on
RECURSIVE HalvesAtEnds(_, _, _, _)
HalvesAtEnds(Fv, load, indices, i) ==
    IF i >= Len(indices) THEN Fv
    ELSE HalvesAtEnds(
             add_segment_load(Fv, indices[i], indices[i + 1],
                 VScale(RDiv(ForceOver(load,
                                 ratio_of(LoadedStart(load),
                                          mesh.solver_joints[indices[i] + 1],
                                          LengthSq(LoadedStart(load), LoadedEnd(load))),
                                 ratio_of(LoadedStart(load),
                                          mesh.solver_joints[indices[i + 1] + 1],
                                          LengthSq(LoadedStart(load), LoadedEnd(load)))),
                             R(2)),
                        load_direction(load, LoadedFrame(load),
                                       LoadedStart(load), LoadedEnd(load)))),
             load, indices, i + 1)

\* the distributed loads C29 speaks of, where the frame of the load is meshed
Lumped(load) ==
    /\ load.direction \in {"GlobalX", "GlobalY", "GlobalZ", "Gravity"}
    /\ RLe(R(0), load.startDistance) /\ RLt(load.startDistance, load.endDistance)
    /\ RLe(load.endDistance, R(1))
    /\ load_mapping(model, mesh, load) # 0

Conserved(load) ==
    /\ \A c \in 0..2 :
           TotalLoad(LumpedBy(load), c, Len(mesh.solver_joints)) =
               RMul(ForceOver(load, R(0), R(1)),
                    load_direction(load, LoadedFrame(load),
                                   LoadedStart(load), LoadedEnd(load))[c + 1])
    /\ \A c \in 3..5 :
           \A node \in 0..(Len(mesh.solver_joints) - 1) :
               IsZeroR(LumpedBy(load)[get_dof_index(node, c)])
    /\ LumpedBy(load) =
           HalvesAtEnds(ZeroF(total_dof_of(mesh)), load,
               mesh.frame_mapping[load_mapping(model, mesh, load)].jointIndices, 1)

LoadsApplied == pc \in {"solve", "post"} \/ ValidResult

\* C29.  Distributed load conservation under meshing: for a distributed load
\* with 0 <= startDistance < endDistance <= 1 and a global or gravity direction
\* the forces lumped onto the load vector add up to 0.5 * (startMagnitude +
\* endMagnitude) * (endDistance - startDistance) * frame length * scale * 1000
\* along the direction for every meshing_segments; each sub-segment's share goes
\* in halves to its two end joints and no moment DOF is loaded.
C29_LoadConservation ==
    LoadsApplied =>
        \A l \in 1..Len(model.distributedFrameLoads) :
            Lumped(model.distributedFrameLoads[l]) =>
                Conserved(model.distributedFrameLoads[l])

\* the same for the loads whose range is at least 1e-4 of the frame
ConservedOverWideRanges ==
    LoadsApplied =>
        \A l \in 1..Len(model.distributedFrameLoads) :
            (/\ Lumped(model.distributedFrameLoads[l])
             /\ RLe(Tol, RSub(model.distributedFrameLoads[l].endDistance,
                              model.distributedFrameLoads[l].startDistance)))
                => Conserved(model.distributedFrameLoads[l])

\* a failure that is returned: isValid = false with the error as the last entry
\* of the log
FailuresReturned ==
    (pc = "done" /\ ~result.isValid) =>
        result.log[Len(result.log)][1] = "Error:"

\* C28.  analyze_structure never propagates an exception: every failure of
\* every stage, the intersection preprocessing included, is returned as a
\* result with isValid = false and an explanatory log entry; a frame that names
\* a joint id absent from model.joints yields a returned result with
\* enable_intersection_check true and false.
C28_NoException ==
    /\ pc # "raised"
    /\ FailuresReturned

(***************************************************************************)
(* Properties of the endpoints                                             *)
(***************************************************************************)
\* the core call returned (it did not raise)
CoreReturned == result # Idle

\* C11.  HTTP error mapping: when the core returns a result with isValid =
\* false, /analyze answers 400 with the concatenated log and /combine answers
\* 400; 500 is answered only when the core call itself raised.
C11_HttpErrorMapping ==
    pc = "responded" =>
        /\ (CoreReturned /\ ~result.isValid) =>
               /\ response.status = 400
               /\ combo = Idle => response.detail = <<"Analysis failed: ", result.log>>
        /\ response.status = 500 => ~CoreReturned

====
